---------------------------- MODULE Spec2Model ----------------------------
(***************************************************************************)
(* Cycle-level model of the command scheduler (Multiplexer), the Refresher *)
(* and the test-side TimingChecker of the LPDDR4 DRAM controller.          *)
(*                                                                         *)
(* The controller is synchronous: one step of Tick is one clock cycle.     *)
(* The registers and this cycle's inputs (the bank machines' outputs) are  *)
(* the state; every combinational signal is an operator over that state;   *)
(* Tick commits every register at once and draws the next cycle's inputs.  *)
(* The tZQCS register exists or not with the memory type                   *)
(* (src/src/dram_core.py:26); a run's configuration says which, and the    *)
(* Refresher has its DO-ZQCS state only when the register exists.          *)
(***************************************************************************)
EXTENDS Integers, Naturals, Sequences, FiniteSets, TLC

(***************************************************************************)
(* Structural parameters of the elaborated design.                         *)
(***************************************************************************)
nbanks == 2
write_latency == 1
\* Python's None
None == -1
\* settings.phy.cl
cl == 3
read_time == 3
write_time == 2
with_refresh == TRUE

Banks == 0 .. (nbanks - 1)

STEER_NOP == 0
STEER_CMD == 1
STEER_REQ == 2
STEER_REFRESH == 3

(***************************************************************************)
(* Widths of the timing registers and the values the runs hold them at.    *)
(***************************************************************************)
tWTR_nbits == 6
tCCD_nbits == 2
tRP_nbits == 2
tRFC_nbits == 2
tZQCS_nbits == 2

bits_for(n) == IF n < 2 THEN 1 ELSE IF n < 4 THEN 2 ELSE IF n < 8 THEN 3
               ELSE IF n < 16 THEN 4 ELSE IF n < 32 THEN 5 ELSE 6

Pow2(n) == 2 ^ n

MaxTREFI == 8

\* has_tZQCS: the register bank holds a tZQCS register.
TimingConfigs ==
    { [postponing |-> 2, tREFI |-> MaxTREFI - 2, tRP |-> 1, tRFC |-> 1,
       tRRD |-> 1, tFAW |-> 0, tCCD |-> 1, tWTR |-> 1,
       has_tZQCS |-> FALSE, tZQCS |-> 0,
       nphases |-> 2, read_latency |-> None],
      [postponing |-> 1, tREFI |-> MaxTREFI, tRP |-> 1, tRFC |-> 1,
       tRRD |-> 1, tFAW |-> 0, tCCD |-> 1, tWTR |-> 6,
       has_tZQCS |-> FALSE, tZQCS |-> 0,
       nphases |-> 2, read_latency |-> None] }

\* zqcs_period = int(clk_freq / zqcs_freq), and the value the ZQCS timer is
\* handed through zqcs_timer_init = Signal(max=zqcs_period)
zqcs_period == 6
zqcs_timer_init == zqcs_period % Pow2(bits_for(zqcs_period - 1))

VARIABLES
    timing_regs,    \* timing registers, postponing, nphases: constant in a run
    bm,             \* per bank machine: its output in this cycle
    mux_state,      \* Multiplexer.fsm state
    rtw_cnt,        \* position in the delayed_enter chain of RTW
    rd_time,        \* anti_starvation(read_time).time
    wr_time,        \* anti_starvation(write_time).time
    trrd_count,     \* trrdcon countdown
    tfaw_window,    \* tfawcon activate history
    tccd_count,     \* tccdcon countdown
    twtr_count,     \* twtrcon countdown
    cmd_grant,      \* choose_cmd.arbiter.grant
    req_grant,      \* choose_req.arbiter.grant
    ref_state,      \* Refresher.fsm state
    timer_count,    \* RefreshTimer.count
    post_count,     \* RefreshPostponer.count
    req_o,          \* RefreshPostponer.req_o
    seq_count,      \* RefreshSequencer.count
    exec_start,     \* RefreshExecutor.start (registered by the sequencer)
    exec_done,      \* RefreshExecutor.done
    seq_done,       \* RefreshSequencer.done
    ref_cmd,        \* refresher.cmd ras/cas/we/a10 registers
    tlc_counter,    \* TimelineCounter.counter
    counter,        \* RefreshExecutor.counter (the TimelineCounter target)
    wants_zqcs,     \* Refresher.wants_zqcs
    zq_timer_count, \* zqcs_timer.count
    zq_tlc_counter, \* ZQCSExecutor's TimelineCounter.counter
    zq_counter,     \* ZQCSExecutor.counter
    zq_done,        \* ZQCSExecutor.done
    \* observers: cycle counts kept beside the design, read by no register
    rd_streak,      \* consecutive cycles in READ with a write pending
    wr_streak,      \* consecutive cycles in WRITE with a read pending
    rd_run,         \* earlier consecutive cycles in READ
    wr_run,         \* earlier consecutive cycles in WRITE
    since_req,      \* cycles since the previous wants_refresh pulse, 0: none
    since_last,     \* cycles since the previous cmd.last, 0: none
    \* one delay-window guard on its own, with free triggers
    g_count,        \* the guard's countdown
    g_valid,        \* its trigger input in this cycle
    g_delay,        \* the delay value supplied in this cycle
    g_armed,        \* the delay value loaded by the most recent trigger
    g_since,        \* cycles since the most recent trigger, 0: none
    \* observers of the Refresher's parts
    since_timer,    \* cycles since the previous timer.done, 0: none
    p_req_i,        \* a postponer's req_i input in this cycle
    p_pulses,       \* req_i pulses that postponer has seen since reset
    s_phase,        \* "none": no sequencer.start yet, "run": started and
                    \* sequencer.done not yet seen, "done": seen
    s_prea,         \* precharge-all commands on cmd since sequencer.start
    s_ref,          \* auto-refresh commands on cmd since sequencer.start
    s_exec,         \* executor.done pulses since sequencer.start
    x_since,        \* cycles since the previous precharge-all on cmd, 0: none
    z_since,        \* cycles since the previous zqcs_executor.start, 0: none
    r_len,          \* consecutive cycles the scheduler has been in REFRESH
    t_len,          \* consecutive cycles in the present RTW or WTR
    owed,           \* wants_refresh pulses seen minus sequences started
    r_prea,         \* precharge-all commands on cmd in this stay in REFRESH
    r_ref,          \* auto-refresh commands on cmd in this stay in REFRESH
    now,            \* cycles since reset, counted where commands are timed
    \* the test bench's TimingChecker, fed commands at will
    chk_cmd_time,   \* TimingChecker.cmd_time: name -> time [ps], None if absent
    chk_hist,       \* observer: the commands checked so far, in order
    chk_log,        \* the logger's error records, in order
    chk_results,    \* the values check_command returned, in order
    \* the test bench's DRAM model (PHY and DRAM as a whole)
    m_iface,        \* the DFI signals the model samples at this rising edge
    m_cmd,          \* what parse_dfi_command returned at the previous edge
    m_passed,       \* Model.passed
    m_banks,        \* Model.banks: bank -> [is_active, row]
    m_queue,        \* Model.queue: the RD/WR commands awaiting their data
    m_storage,      \* Model.storage: (row, bank, col, lane) -> byte
    m_ret,          \* what handle_dfi_io returned at the previous edge
    m_log,          \* what the model logged at the previous edge
    m_ticks,        \* rising edges the model has seen
    m_writes,       \* observer: the writes stored so far, in order
    d_again,        \* observer: a second decode of the signals m_cmd came from
    d_pending       \* observer: that second decode is still to come

ctrl_vars == << timing_regs, bm, mux_state, rtw_cnt, rd_time, wr_time,
                trrd_count, tfaw_window, tccd_count, twtr_count, cmd_grant,
                req_grant, ref_state, timer_count, post_count, req_o,
                seq_count, exec_start, exec_done, seq_done, ref_cmd,
                tlc_counter, counter, wants_zqcs, zq_timer_count,
                zq_tlc_counter, zq_counter, zq_done >>

obs_vars == << rd_streak, wr_streak, rd_run, wr_run, since_req, since_last >>

guard_vars == << g_count, g_valid, g_delay, g_armed, g_since >>

chk_vars == << chk_cmd_time, chk_hist, chk_log, chk_results >>

seq_obs == << s_phase, s_prea, s_ref, s_exec >>

run_obs == << r_len, t_len, owed, r_prea, r_ref, now >>

aux_vars == << since_timer, p_req_i, p_pulses, seq_obs, x_since,
              z_since, run_obs >>

model_vars == << m_iface, m_cmd, m_passed, m_banks, m_queue, m_storage,
                m_ret, m_log, m_ticks, m_writes, d_again, d_pending >>

vars == << ctrl_vars, obs_vars, guard_vars, chk_vars, aux_vars, model_vars >>


\* settings.phy.nphases, rdphase and wrphase: constant in a run, held with
\* the timing registers; the command of a data phase goes out one phase
\* before it
nphases == timing_regs.nphases
rdphase == IF nphases = 1 THEN 0 ELSE 1
wrphase == 0
rdcmdphase == (rdphase - 1) % nphases
wrcmdphase == (wrphase - 1) % nphases

Phases == 0 .. (nphases - 1)

\* settings.phy.read_latency, None when the PHY does not state it, and the
\* delay of delayed_enter("RTW", "WRITE", ...)
read_latency == timing_regs.read_latency

\* Fault variant: the whole read latency is waited for.
RTWDelay_whole_latency == IF read_latency # None THEN read_latency
                          ELSE (cl + 1) \div nphases

RTWDelay == IF read_latency # None THEN read_latency - 1
            ELSE (cl + 1) \div nphases

(***************************************************************************)
(* Bank machines (external): each drives one command request and its       *)
(* refresh_gnt.  A bank machine is either in regular operation (no         *)
(* request, or a read, write, activate or precharge request) or in its     *)
(* refresh state, where it has no request and may grant the refresh.       *)
(***************************************************************************)
RegularKinds == {"idle", "rd", "wr", "act", "pre"}
RefreshKinds == {"ref_wait", "ref_gnt"}
BMKinds == RegularKinds \cup RefreshKinds

\* The multiplexer itself takes the requests and the grants as independent
\* inputs: these kinds grant the refresh while a read or write is requested.
GrantingKinds == {"rd_gnt", "wr_gnt"}

req_valid(b)    == bm[b] \in {"rd", "wr", "act", "pre"} \cup GrantingKinds
req_is_read(b)  == bm[b] \in {"rd", "rd_gnt"}
req_is_write(b) == bm[b] \in {"wr", "wr_gnt"}
req_is_cmd(b)   == bm[b] \in {"act", "pre"}
req_is_act(b)   == bm[b] = "act"
refresh_gnt(b)  == bm[b] \in {"ref_gnt"} \cup GrantingKinds

(***************************************************************************)
(* Delay-window guards.                                                    *)
(***************************************************************************)
GuardReady(count) == count = 0

\* Fault variant: a trigger during a countdown is ignored.
GuardNext_no_restart(count, valid, delay) ==
    IF valid /\ count = 0 THEN delay
    ELSE IF count > 0 THEN count - 1 ELSE 0

GuardNext(count, valid, delay) ==
    IF valid THEN delay
    ELSE IF count > 0 THEN count - 1 ELSE 0

RECURSIVE CountTrue(_)
CountTrue(w) == IF w = << >> THEN 0
                ELSE (IF Head(w) THEN 1 ELSE 0) + CountTrue(Tail(w))

FawReady(window) == CountTrue(window) < 4

FawNext(window, valid, tfaw) ==
    IF tfaw = 0 THEN << >>
    ELSE SubSeq(<< valid >> \o window, 1, tfaw)

trrdcon_ready == GuardReady(trrd_count)
tfawcon_ready == FawReady(tfaw_window)
tccdcon_ready == GuardReady(tccd_count)
twtrcon_ready == GuardReady(twtr_count)

\* Fault variant: the four-activate window is left out.
ras_allowed_trrd_only == trrdcon_ready

ras_allowed == trrdcon_ready /\ tfawcon_ready
cas_allowed == tccdcon_ready

twtrcon_init ==
    (timing_regs.tWTR + write_latency + timing_regs.tCCD)
        % Pow2(bits_for(tWTR_nbits + write_latency + tCCD_nbits - 1))

(***************************************************************************)
(* Command choosers.                                                       *)
(***************************************************************************)
ChooserValid(b, want_reads, want_writes, want_cmds, want_activates) ==
    LET command == req_is_cmd(b) /\ want_cmds
                   /\ (~req_is_act(b) \/ want_activates)
        read    == req_is_read(b) = want_reads
        write   == req_is_write(b) = want_writes
    IN  req_valid(b) /\ (command \/ (read /\ write))

req_want_reads     == mux_state = "READ"
req_want_writes    == mux_state = "WRITE"
req_want_cmds      == nphases = 1
req_want_activates == nphases = 1 /\ ras_allowed

cmd_want_reads     == IF nphases = 1 THEN req_want_reads ELSE FALSE
cmd_want_writes    == IF nphases = 1 THEN req_want_writes ELSE FALSE
cmd_want_cmds      == IF nphases = 1 THEN req_want_cmds ELSE FALSE
cmd_want_activates == IF nphases = 1 THEN req_want_activates
                      ELSE mux_state \in {"READ", "WRITE"} /\ ras_allowed

req_valids(b) == ChooserValid(b, req_want_reads, req_want_writes,
                              req_want_cmds, req_want_activates)
cmd_valids(b) == ChooserValid(b, cmd_want_reads, cmd_want_writes,
                              cmd_want_cmds, cmd_want_activates)

\* with one phase choose_cmd is choose_req; the chooser first made stays a
\* submodule with none of its want_ inputs nor its cmd.ready driven
orphan_valids(b) == ChooserValid(b, FALSE, FALSE, FALSE, FALSE)

choose_req_grant == req_grant
choose_cmd_grant == IF nphases = 1 THEN req_grant ELSE cmd_grant

choose_req_valid == req_valids(choose_req_grant)
choose_cmd_valid == cmd_valids(choose_cmd_grant)

choose_req_activate == choose_req_valid /\ req_is_act(choose_req_grant)
choose_cmd_activate == choose_cmd_valid /\ req_is_act(choose_cmd_grant)
choose_req_read     == req_is_read(choose_req_grant)
choose_req_write    == req_is_write(choose_req_grant)

choose_req_ready ==
    /\ mux_state \in {"READ", "WRITE"}
    /\ IF nphases = 1
       THEN cas_allowed /\ (~choose_req_activate \/ ras_allowed)
       ELSE cas_allowed

choose_cmd_ready ==
    IF nphases = 1 THEN choose_req_ready
    ELSE /\ mux_state \in {"READ", "WRITE"}
         /\ (~choose_cmd_activate \/ ras_allowed)

choose_req_accept == choose_req_valid /\ choose_req_ready
choose_cmd_accept == choose_cmd_valid /\ choose_cmd_ready

RoundRobinNext(grant, request, ce) ==
    LET others == { k \in 1 .. (nbanks - 1) : request[(grant + k) % nbanks] }
        first  == CHOOSE k \in others : \A j \in others : k <= j
    IN  IF ce /\ others # {} THEN (grant + first) % nbanks ELSE grant

trrdcon_valid == choose_cmd_accept /\ choose_cmd_activate
tfawcon_valid == choose_cmd_accept /\ choose_cmd_activate
tccdcon_valid == choose_req_accept /\ (choose_req_write \/ choose_req_read)
twtrcon_valid == choose_req_accept /\ choose_req_write

read_available  == \E b \in Banks : req_valid(b) /\ req_is_read(b)
write_available == \E b \in Banks : req_valid(b) /\ req_is_write(b)

max_read_time  == IF read_time # 0 THEN rd_time = 0 ELSE FALSE
max_write_time == IF write_time # 0 THEN wr_time = 0 ELSE FALSE
read_time_en   == mux_state = "READ"
write_time_en  == mux_state = "WRITE"

\* Fault variant: the counter restarts at timeout instead of timeout - 1.
AntiStarvationNext_off_by_one(time, en, max_time, timeout) ==
    IF timeout = 0 THEN 0
    ELSE IF ~en THEN timeout
    ELSE IF ~max_time THEN time - 1
    ELSE time

AntiStarvationNext(time, en, max_time, timeout) ==
    IF timeout = 0 THEN 0
    ELSE IF ~en THEN timeout - 1
    ELSE IF ~max_time THEN time - 1
    ELSE time

(***************************************************************************)
(* Refresher outputs.                                                      *)
(***************************************************************************)
wants_refresh == req_o
timer_done    == timer_count = 0
timer_wait    == ~timer_done
sequencer_done == seq_done

zqcs_timer_done == zq_timer_count = 0
zqcs_timer_wait == ~zqcs_timer_done
zqcs_executor_done == zq_done

\* DO-REFRESH goes on to DO-ZQCS when the tZQCS register exists and
\* wants_zqcs is set
\* Fault variant: the calibration is started whether asked for or not.
zqcs_executor_start_unasked ==
    /\ timing_regs.has_tZQCS
    /\ ref_state = "DO-REFRESH"
    /\ sequencer_done

zqcs_executor_start ==
    /\ timing_regs.has_tZQCS
    /\ ref_state = "DO-REFRESH"
    /\ sequencer_done
    /\ wants_zqcs

refresher_cmd_valid ==
    \/ ref_state = "WAIT-BANK-MACHINES"
    \/ ref_state = "DO-REFRESH" /\ (~sequencer_done \/ zqcs_executor_start)
    \/ ref_state = "DO-ZQCS" /\ ~zqcs_executor_done
refresher_cmd_last ==
    \/ ref_state = "DO-REFRESH" /\ sequencer_done /\ ~zqcs_executor_start
    \/ ref_state = "DO-ZQCS" /\ zqcs_executor_done
\* Fault variant: cmd.ready also driven in READ.
refresher_cmd_ready_in_read == mux_state \in {"REFRESH", "READ"}

refresher_cmd_ready == mux_state = "REFRESH"
sequencer_start ==
    ref_state = "WAIT-BANK-MACHINES" /\ refresher_cmd_ready

bm_refresh_req(b) == refresher_cmd_valid
\* Fault variant: the grants reduced with or_ instead of and_.
go_to_refresh_any == \E b \in Banks : refresh_gnt(b)

go_to_refresh == \A b \in Banks : refresh_gnt(b)

\* Fault variant: REFRESH steers the Refresher's command to every phase.
steerer_sel_all_phases(i) ==
    IF mux_state = "REFRESH" THEN STEER_REFRESH ELSE STEER_NOP

steerer_sel(i) ==
    IF mux_state = "READ"
    THEN IF i = rdcmdphase THEN STEER_CMD
         ELSE IF i = rdphase THEN STEER_REQ ELSE STEER_NOP
    ELSE IF mux_state = "WRITE"
    THEN IF i = wrcmdphase THEN STEER_CMD
         ELSE IF i = wrphase THEN STEER_REQ ELSE STEER_NOP
    ELSE IF mux_state = "REFRESH" /\ i = 0 THEN STEER_REFRESH
    ELSE STEER_NOP


(***************************************************************************)
(* Next-state functions of the registers.                                  *)
(***************************************************************************)
MuxEnterRTW == IF RTWDelay = 0 THEN "WRITE" ELSE "RTW"

\* Fault variant: the turnaround is tested before the refresh grant.
MuxNextState_turnaround_first ==
    CASE mux_state = "READ" ->
           IF write_available /\ (~read_available \/ max_read_time)
           THEN MuxEnterRTW
           ELSE IF go_to_refresh THEN "REFRESH" ELSE "READ"
      [] mux_state = "WRITE" ->
           IF read_available /\ (~write_available \/ max_write_time)
           THEN "WTR"
           ELSE IF go_to_refresh THEN "REFRESH" ELSE "WRITE"
      [] mux_state = "REFRESH" ->
           IF refresher_cmd_last THEN "READ" ELSE "REFRESH"
      [] mux_state = "WTR" ->
           IF twtrcon_ready THEN "READ" ELSE "WTR"
      [] mux_state = "RTW" ->
           IF rtw_cnt >= RTWDelay - 1 THEN "WRITE" ELSE "RTW"

\* Fault variant: READ leaves for RTW only when no read is pending.
MuxNextState_no_timeout ==
    CASE mux_state = "READ" ->
           IF go_to_refresh THEN "REFRESH"
           ELSE IF write_available /\ ~read_available
                THEN MuxEnterRTW
                ELSE "READ"
      [] mux_state = "WRITE" ->
           IF go_to_refresh THEN "REFRESH"
           ELSE IF read_available /\ (~write_available \/ max_write_time)
                THEN "WTR"
                ELSE "WRITE"
      [] mux_state = "REFRESH" ->
           IF refresher_cmd_last THEN "READ" ELSE "REFRESH"
      [] mux_state = "WTR" ->
           IF twtrcon_ready THEN "READ" ELSE "WTR"
      [] mux_state = "RTW" ->
           IF rtw_cnt >= RTWDelay - 1 THEN "WRITE" ELSE "RTW"

\* Fault variant: REFRESH returns to WRITE.
MuxNextState_refresh_to_write ==
    CASE mux_state = "READ" ->
           IF go_to_refresh THEN "REFRESH"
           ELSE IF write_available /\ (~read_available \/ max_read_time)
                THEN MuxEnterRTW
                ELSE "READ"
      [] mux_state = "WRITE" ->
           IF go_to_refresh THEN "REFRESH"
           ELSE IF read_available /\ (~write_available \/ max_write_time)
                THEN "WTR"
                ELSE "WRITE"
      [] mux_state = "REFRESH" ->
           IF refresher_cmd_last THEN "WRITE" ELSE "REFRESH"
      [] mux_state = "WTR" ->
           IF twtrcon_ready THEN "READ" ELSE "WTR"
      [] mux_state = "RTW" ->
           IF rtw_cnt >= RTWDelay - 1 THEN "WRITE" ELSE "RTW"

MuxNextState ==
    CASE mux_state = "READ" ->
           IF go_to_refresh THEN "REFRESH"
           ELSE IF write_available /\ (~read_available \/ max_read_time)
                THEN MuxEnterRTW
                ELSE "READ"
      [] mux_state = "WRITE" ->
           IF go_to_refresh THEN "REFRESH"
           ELSE IF read_available /\ (~write_available \/ max_write_time)
                THEN "WTR"
                ELSE "WRITE"
      [] mux_state = "REFRESH" ->
           IF refresher_cmd_last THEN "READ" ELSE "REFRESH"
      [] mux_state = "WTR" ->
           IF twtrcon_ready THEN "READ" ELSE "WTR"
      [] mux_state = "RTW" ->
           IF rtw_cnt >= RTWDelay - 1 THEN "WRITE" ELSE "RTW"

MuxNextRtwCnt ==
    IF mux_state = "RTW" /\ rtw_cnt < RTWDelay - 1 THEN rtw_cnt + 1 ELSE 0

\* Fault variant: WAIT-BANK-MACHINES does not wait for cmd.ready.
RefresherNextState_no_wait ==
    CASE ref_state = "IDLE" ->
           IF with_refresh /\ wants_refresh THEN "WAIT-BANK-MACHINES"
           ELSE "IDLE"
      [] ref_state = "WAIT-BANK-MACHINES" -> "DO-REFRESH"
      [] ref_state = "DO-REFRESH" ->
           IF sequencer_done
           THEN (IF zqcs_executor_start THEN "DO-ZQCS" ELSE "IDLE")
           ELSE "DO-REFRESH"
      [] ref_state = "DO-ZQCS" ->
           IF zqcs_executor_done THEN "IDLE" ELSE "DO-ZQCS"

RefresherNextState ==
    CASE ref_state = "IDLE" ->
           IF with_refresh /\ wants_refresh THEN "WAIT-BANK-MACHINES"
           ELSE "IDLE"
      [] ref_state = "WAIT-BANK-MACHINES" ->
           IF refresher_cmd_ready THEN "DO-REFRESH"
           ELSE "WAIT-BANK-MACHINES"
      [] ref_state = "DO-REFRESH" ->
           IF sequencer_done
           THEN (IF zqcs_executor_start THEN "DO-ZQCS" ELSE "IDLE")
           ELSE "DO-REFRESH"
      [] ref_state = "DO-ZQCS" ->
           IF zqcs_executor_done THEN "IDLE" ELSE "DO-ZQCS"

\* Fault variant: the counter reloads to trefi instead of trefi - 1.
TimerNext_off_by_one(count, wait, trefi) ==
    IF wait /\ ~(count = 0) THEN count - 1
    ELSE IF trefi # 0 THEN trefi ELSE count

TimerNext(count, wait, trefi) ==
    IF wait /\ ~(count = 0) THEN count - 1
    ELSE IF trefi # 0 THEN trefi - 1 ELSE count

\* Fault variant: the reload value is postponing, one too many.
PostponerNextCount_reload_n(count, req_i, postponing) ==
    IF req_i THEN (IF count = 0 THEN postponing ELSE count - 1)
    ELSE count

PostponerNextCount(count, req_i, postponing) ==
    IF req_i THEN (IF count = 0 THEN postponing - 1 ELSE count - 1)
    ELSE count

PostponerNextReqO(count, req_i) == req_i /\ count = 0

SequencerNextCount(count, start, executor_done, postponing) ==
    IF start THEN postponing - 1
    ELSE IF executor_done /\ count # 0 THEN count - 1
    ELSE count

SequencerNextExecStart(count, start) == start \/ count # 0

SequencerNextDone(count, executor_done) == executor_done /\ count = 0

\* Fault variant: the signal's max taken as the sum of the two widths.
CounterBits_of_widths(a, b) == bits_for(a + b - 1)

\* counter = Signal(max=2**a + 2**b) for registers of a and b bits
CounterBits(a, b) == bits_for(Pow2(a) + Pow2(b) - 1)
\* TimelineCounter(max(a, b) + 1)
TimelineBits(a, b) == (IF a > b THEN a ELSE b) + 1

counter_width == CounterBits(tRP_nbits, tRFC_nbits)
tlc_width == TimelineBits(tRP_nbits, tRFC_nbits)

TimelineCounterNext(cnt, trigger, target) ==
    IF cnt = target THEN 0
    ELSE IF cnt # 0 THEN (cnt + 1) % Pow2(tlc_width)
    ELSE IF trigger THEN 1
    ELSE 0

CmdNone == [ras |-> 0, cas |-> 0, we |-> 0, a10 |-> 0]
CmdPrechargeAll == [ras |-> 1, cas |-> 0, we |-> 1, a10 |-> 1]
CmdAutoRefresh == [ras |-> 1, cas |-> 1, we |-> 0, a10 |-> 1]

\* Fault variant: the auto-refresh leaves one cycle late.
ExecutorNextCmd_late_refresh(cnt, trigger, trp, trfc) ==
    IF cnt = trp + trfc THEN CmdNone
    ELSE IF cnt = trp + 1 THEN CmdAutoRefresh
    ELSE IF trigger /\ cnt = 0 THEN CmdPrechargeAll
    ELSE CmdNone

ExecutorNextCmd(cnt, trigger, trp, trfc) ==
    IF cnt = trp + trfc THEN CmdNone
    ELSE IF cnt = trp THEN CmdAutoRefresh
    ELSE IF trigger /\ cnt = 0 THEN CmdPrechargeAll
    ELSE CmdNone

\* Fault variant: done leaves one cycle early.
ExecutorNextDone_early(cnt, trp, trfc) == cnt = trp + trfc - 1

ExecutorNextDone(cnt, trp, trfc) == cnt = trp + trfc

ExecutorNextCounter(trp, trfc) == (trp + trfc) % Pow2(counter_width)

\* The ZQCS request flag, timer and executor; they exist only with the
\* tZQCS register, and keep their reset values without it.
\* Fault variant: the flag follows the timer instead of holding its value.
WantsZqcsNext_not_held(wants, tzqcs, timer_is_done, executor_done) ==
    IF tzqcs # 0 THEN timer_is_done /\ ~executor_done
    ELSE wants

WantsZqcsNext(wants, tzqcs, timer_is_done, executor_done) ==
    IF ~wants /\ tzqcs # 0 THEN timer_is_done
    ELSE IF wants THEN ~executor_done
    ELSE wants

zq_counter_width == CounterBits(tRP_nbits, tZQCS_nbits)
zq_tlc_width == TimelineBits(tRP_nbits, tZQCS_nbits)

ZqcsTimelineCounterNext(cnt, trigger, target) ==
    IF cnt = target THEN 0
    ELSE IF cnt # 0 THEN (cnt + 1) % Pow2(zq_tlc_width)
    ELSE IF trigger THEN 1
    ELSE 0

CmdZQCS == [ras |-> 0, cas |-> 0, we |-> 1, a10 |-> 0]

\* the ZQCSExecutor's assignments to cmd come after the RefreshExecutor's
\* and win over them; base is what the RefreshExecutor assigns
ZqcsExecutorNextCmd(base, cnt, trigger, trp, tzqcs) ==
    IF cnt = trp + tzqcs THEN CmdNone
    ELSE IF cnt = trp THEN CmdZQCS
    ELSE IF trigger /\ cnt = 0 THEN CmdPrechargeAll
    ELSE base

ZqcsExecutorNextDone(cnt, trp, tzqcs) == cnt = trp + tzqcs

ZqcsExecutorNextCounter(trp, tzqcs) ==
    (trp + tzqcs) % Pow2(zq_counter_width)

BankMachineNext(kind, refresh_req) ==
    IF ~refresh_req THEN RegularKinds
    ELSE IF kind \in RegularKinds THEN BMKinds \cup GrantingKinds
    ELSE IF kind = "ref_wait" THEN RefreshKinds \cup GrantingKinds
    ELSE {"ref_gnt"} \cup GrantingKinds

(***************************************************************************)
(* Reset state and the clock cycle.                                        *)
(***************************************************************************)
\* The reset state, the timing registers holding one of configs.
InitRegs(configs) ==
    /\ timing_regs \in configs
    /\ bm = [b \in Banks |-> "idle"]
    /\ mux_state = "READ"
    /\ rtw_cnt = 0
    /\ rd_time = 0
    /\ wr_time = 0
    /\ trrd_count = 0
    /\ tfaw_window = [i \in 1 .. timing_regs.tFAW |-> FALSE]
    /\ tccd_count = 0
    /\ twtr_count = 0
    /\ cmd_grant = 0
    /\ req_grant = 0
    /\ ref_state = "IDLE"
    /\ timer_count = 0
    /\ post_count = timing_regs.postponing - 1
    /\ req_o = FALSE
    /\ seq_count = timing_regs.postponing - 1
    /\ exec_start = FALSE
    /\ exec_done = FALSE
    /\ seq_done = FALSE
    /\ ref_cmd = CmdNone
    /\ tlc_counter = 0
    /\ counter = 0
    /\ wants_zqcs = FALSE
    /\ zq_timer_count = 0
    /\ zq_tlc_counter = 0
    /\ zq_counter = 0
    /\ zq_done = FALSE

InitCtrl == InitRegs(TimingConfigs)

\* One clock cycle with the bank machines' outputs drawn from kinds and the
\* anti-starvation timeouts rt (settings.read_time), wt (settings.write_time).
TickCfg(kinds, rt, wt) ==
    /\ timing_regs' = timing_regs
    /\ mux_state' = MuxNextState
    /\ rtw_cnt' = MuxNextRtwCnt
    /\ rd_time' = AntiStarvationNext(rd_time, read_time_en, max_read_time, rt)
    /\ wr_time' = AntiStarvationNext(wr_time, write_time_en, max_write_time,
                                     wt)
    /\ trrd_count' = GuardNext(trrd_count, trrdcon_valid, timing_regs.tRRD)
    /\ tfaw_window' = FawNext(tfaw_window, tfawcon_valid, timing_regs.tFAW)
    /\ tccd_count' = GuardNext(tccd_count, tccdcon_valid, timing_regs.tCCD)
    /\ twtr_count' = GuardNext(twtr_count, twtrcon_valid, twtrcon_init)
    /\ cmd_grant' =
         IF nphases = 1
         THEN RoundRobinNext(cmd_grant, [b \in Banks |-> orphan_valids(b)],
                             ~orphan_valids(cmd_grant))
         ELSE RoundRobinNext(cmd_grant, [b \in Banks |-> cmd_valids(b)],
                             choose_cmd_ready \/ ~choose_cmd_valid)
    /\ req_grant' = RoundRobinNext(req_grant, [b \in Banks |-> req_valids(b)],
                                   choose_req_ready \/ ~choose_req_valid)
    /\ ref_state' = RefresherNextState
    /\ timer_count' = TimerNext(timer_count, timer_wait, timing_regs.tREFI)
    /\ post_count' = PostponerNextCount(post_count, timer_done,
                                        timing_regs.postponing)
    /\ req_o' = PostponerNextReqO(post_count, timer_done)
    /\ seq_count' = SequencerNextCount(seq_count, sequencer_start, exec_done,
                                       timing_regs.postponing)
    /\ exec_start' = SequencerNextExecStart(seq_count, sequencer_start)
    /\ seq_done' = SequencerNextDone(seq_count, exec_done)
    /\ ref_cmd' =
         LET base == ExecutorNextCmd(tlc_counter, exec_start,
                                     timing_regs.tRP, timing_regs.tRFC)
         IN  IF timing_regs.has_tZQCS
             THEN ZqcsExecutorNextCmd(base, zq_tlc_counter,
                                      zqcs_executor_start, timing_regs.tRP,
                                      timing_regs.tZQCS)
             ELSE base
    /\ exec_done' = ExecutorNextDone(tlc_counter, timing_regs.tRP,
                                     timing_regs.tRFC)
    /\ tlc_counter' = TimelineCounterNext(tlc_counter, exec_start, counter)
    /\ counter' = ExecutorNextCounter(timing_regs.tRP, timing_regs.tRFC)
    /\ IF timing_regs.has_tZQCS
       THEN /\ wants_zqcs' = WantsZqcsNext(wants_zqcs, timing_regs.tZQCS,
                                           zqcs_timer_done,
                                           zqcs_executor_done)
            /\ zq_timer_count' = TimerNext(zq_timer_count, zqcs_timer_wait,
                                           zqcs_timer_init)
            /\ zq_tlc_counter' = ZqcsTimelineCounterNext(
                                     zq_tlc_counter, zqcs_executor_start,
                                     zq_counter)
            /\ zq_counter' = ZqcsExecutorNextCounter(timing_regs.tRP,
                                                     timing_regs.tZQCS)
            /\ zq_done' = ZqcsExecutorNextDone(zq_tlc_counter,
                                               timing_regs.tRP,
                                               timing_regs.tZQCS)
       ELSE UNCHANGED << wants_zqcs, zq_timer_count, zq_tlc_counter,
                         zq_counter, zq_done >>
    /\ bm' \in [Banks -> kinds]
    /\ \A b \in Banks : bm'[b] \in BankMachineNext(bm[b], bm_refresh_req(b))

TickWith(kinds) == TickCfg(kinds, read_time, write_time)

Tick == TickWith(BMKinds)

(***************************************************************************)
(* The test bench's TimingChecker.  Times are in ps, as cocotb reports     *)
(* them at the rising edges of the DFI clock.                              *)
(***************************************************************************)
CLK_FREQ == 100
ClkPeriodPs == ((2 * 1000 + CLK_FREQ) \div (2 * CLK_FREQ)) * 1000

Timings ==
    [tRP |-> 2, tRCD |-> 2, tWR |-> 2, tWTR |-> 2, tREFI |-> 586,
     tRFC |-> 16, tFAW |-> 5, tCCD |-> 1, tRRD |-> 2, tRC |-> 5,
     tRAS |-> 4, tZQCS |-> 16]

RULES ==
    << << "PRE",  "ACT", "tRP" >>,
       << "PRE",  "REF", "tRP" >>,
       << "ACT",  "WR",  "tRCD" >>,
       << "ACT",  "RD",  "tRCD" >>,
       << "ACT",  "PRE", "tRAS" >>,
       << "REF",  "PRE", "tRFC" >>,
       << "REF",  "ACT", "tRFC" >>,
       << "WR",   "RD",  "tCCD" >>,
       << "WR",   "WR",  "tCCD" >>,
       << "RD",   "RD",  "tCCD" >>,
       << "RD",   "WR",  "tCCD" >>,
       << "ACT",  "ACT", "tRC" >>,
       << "WR",   "PRE", "tWR" >>,
       << "WR",   "RD",  "tWTR" >>,
       << "ZQCS", "ACT", "tZQCS" >> >>

\* int(1e6 * delay_cyc / clk_freq)
DelayTim(delay_cyc) == (1000000 * delay_cyc) \div CLK_FREQ

\* Fault variant: the copy of a precharge rule names PRE again.
ReplacePRE_identity(name) == name

\* str.replace("PRE", "PREA") on a command name of RULES
ReplacePRE(name) == IF name = "PRE" THEN "PREA" ELSE name

TimingRule(name, prev, curr, delay) ==
    [name |-> name, prev |-> prev, curr |-> curr, delay |-> delay]

\* the rules __init__ builds from the timings it is given
RECURSIVE BuildRulesFor(_, _)
BuildRulesFor(timings, i) ==
    IF i > Len(RULES) THEN << >>
    ELSE LET rule == RULES[i]
             delay_tim == DelayTim(timings[rule[3]])
             own == << TimingRule(rule[3], rule[1], rule[2], delay_tim) >>
             dup == IF rule[1] = "PRE" \/ rule[2] = "PRE"
                    THEN << TimingRule(rule[3], ReplacePRE(rule[1]),
                                       ReplacePRE(rule[2]), delay_tim) >>
                    ELSE << >>
         IN  own \o dup \o BuildRulesFor(timings, i + 1)

BuildRules(i) == BuildRulesFor(Timings, i)

rules == BuildRules(1)

\* the command names the rules mention
CmdNames == {"REF", "PRE", "PREA", "ACT", "WR", "RD", "ZQCS"}

\* "{:.2f}ns".format(1e-3 * delay): the delay in hundredths of a nanosecond
FormatNs(delay) == (delay + 5) \div 10

\* Fault variant: a predecessor never seen counts as seen at time 0.
RuleViolated_from_zero(rule, name, time, cmd_time) ==
    /\ name = rule.curr
    /\ time - (IF cmd_time[rule.prev] = None THEN 0
               ELSE cmd_time[rule.prev]) < rule.delay

\* Fault variant: a delay equal to the rule's minimum is an error too.
RuleViolated_inclusive(rule, name, time, cmd_time) ==
    /\ name = rule.curr
    /\ cmd_time[rule.prev] # None
    /\ time - cmd_time[rule.prev] <= rule.delay

RuleViolated(rule, name, time, cmd_time) ==
    /\ name = rule.curr
    /\ cmd_time[rule.prev] # None
    /\ time - cmd_time[rule.prev] < rule.delay

\* the error records of one check_command call, in rule order
RECURSIVE CheckErrorsFor(_, _, _, _, _)
CheckErrorsFor(rs, r, name, time, cmd_time) ==
    IF r > Len(rs) THEN << >>
    ELSE LET rest == CheckErrorsFor(rs, r + 1, name, time, cmd_time)
         IN  IF RuleViolated(rs[r], name, time, cmd_time)
             THEN << [rule |-> r,
                      actual |-> FormatNs(time - cmd_time[rs[r].prev])] >>
                  \o rest
             ELSE rest

CheckErrors(r, name, time, cmd_time) ==
    CheckErrorsFor(rules, r, name, time, cmd_time)

\* Fault variant: the time is stored under every command name.
StoreTime_all_names(cmd_time, name, time) == [n \in DOMAIN cmd_time |-> time]

\* Fault variant: only the first occurrence of a command is remembered.
StoreTime_first(cmd_time, name, time) ==
    IF cmd_time[name] = None
    THEN [cmd_time EXCEPT ![name] = time]
    ELSE cmd_time

StoreTime(cmd_time, name, time) == [cmd_time EXCEPT ![name] = time]

MaxCmds == 3
\* clock cycles from one checked command to the next: tick() parses at most
\* one command per rising edge
StepCycles == {1, 2, 16}

InitChecker ==
    /\ chk_cmd_time = [n \in CmdNames |-> None]
    /\ chk_hist = << >>
    /\ chk_log = << >>
    /\ chk_results = << >>

LastTime(hist) == IF hist = << >> THEN 0 ELSE hist[Len(hist)].time

CheckCommand ==
    /\ Len(chk_hist) < MaxCmds
    /\ \E name \in CmdNames, step \in StepCycles :
         LET time == LastTime(chk_hist) + step * ClkPeriodPs
             errors == CheckErrors(1, name, time, chk_cmd_time)
         IN  /\ chk_results' = Append(chk_results, errors = << >>)
             /\ chk_log' = chk_log \o errors
             /\ chk_cmd_time' = StoreTime(chk_cmd_time, name, time)
             /\ chk_hist' = Append(chk_hist, [name |-> name, time |-> time])
    /\ UNCHANGED << ctrl_vars, obs_vars, aux_vars, guard_vars, model_vars >>

(***************************************************************************)
(* The test bench's DRAM model: command decoding.                          *)
(***************************************************************************)
\* the DFI signals of one phase with chip select active and no command
IfaceIdle ==
    [cke |-> 1, cs_n |-> 0, ras_n |-> 1, cas_n |-> 1, we_n |-> 1,
     bank |-> 0, address |-> 0, wrdata_en |-> 0, rddata_en |-> 0,
     wrdata |-> 0, wrdata_mask |-> 0]

\* bit n of x
Bit(x, n) == (x \div Pow2(n)) % 2

\* Fault variant: the read and write codes change places.
COMMANDS_rd_wr_swapped(ras_n, cas_n, we_n) ==
    CASE << ras_n, cas_n, we_n >> = << 0, 0, 0 >> -> "MRS"
      [] << ras_n, cas_n, we_n >> = << 0, 0, 1 >> -> "REF"
      [] << ras_n, cas_n, we_n >> = << 0, 1, 0 >> -> "PRE"
      [] << ras_n, cas_n, we_n >> = << 0, 1, 1 >> -> "ACT"
      [] << ras_n, cas_n, we_n >> = << 1, 0, 0 >> -> "RD"
      [] << ras_n, cas_n, we_n >> = << 1, 0, 1 >> -> "WR"
      [] << ras_n, cas_n, we_n >> = << 1, 1, 1 >> -> "NOP"
      [] << ras_n, cas_n, we_n >> = << 1, 1, 0 >> -> "ZQC"

COMMANDS(ras_n, cas_n, we_n) ==
    CASE << ras_n, cas_n, we_n >> = << 0, 0, 0 >> -> "MRS"
      [] << ras_n, cas_n, we_n >> = << 0, 0, 1 >> -> "REF"
      [] << ras_n, cas_n, we_n >> = << 0, 1, 0 >> -> "PRE"
      [] << ras_n, cas_n, we_n >> = << 0, 1, 1 >> -> "ACT"
      [] << ras_n, cas_n, we_n >> = << 1, 0, 0 >> -> "WR"
      [] << ras_n, cas_n, we_n >> = << 1, 0, 1 >> -> "RD"
      [] << ras_n, cas_n, we_n >> = << 1, 1, 1 >> -> "NOP"
      [] << ras_n, cas_n, we_n >> = << 1, 1, 0 >> -> "ZQC"

\* parse_dfi_command returning None; an argument a command does not carry
\* is None (burst: "")
NoCommand ==
    [name |-> "", bank |-> None, row |-> None, col |-> None, burst |-> ""]

\* Fault variant: the precharge is taken for a precharge-all when the bank
\* it names is closed already.
parse_dfi_command_by_bank_state(iface) ==
    IF iface.cke = 0 \/ iface.cs_n = 1 THEN NoCommand
    ELSE LET cmd_name == COMMANDS(iface.ras_n, iface.cas_n, iface.we_n)
             a10 == Bit(iface.address, 10) = 1
                    \/ ~m_banks[iface.bank].is_active
             rw == cmd_name \in {"RD", "WR"}
         IN  [name |-> IF cmd_name = "PRE" /\ a10 THEN "PREA"
                       ELSE IF cmd_name = "ZQC"
                       THEN (IF Bit(iface.address, 10) = 1
                             THEN "ZQCL" ELSE "ZQCS")
                       ELSE cmd_name,
              bank |-> IF \/ cmd_name \in {"MRS", "ACT", "RD", "WR"}
                          \/ cmd_name = "PRE" /\ ~a10
                       THEN iface.bank ELSE None,
              row |-> IF cmd_name = "ACT" THEN iface.address ELSE None,
              col |-> IF rw THEN iface.address % Pow2(12) ELSE None,
              burst |-> IF ~rw THEN ""
                        ELSE IF Bit(iface.address, 12) = 1 THEN "BL8"
                        ELSE "BC4"]

parse_dfi_command(iface) ==
    IF iface.cke = 0 \/ iface.cs_n = 1 THEN NoCommand
    ELSE LET cmd_name == COMMANDS(iface.ras_n, iface.cas_n, iface.we_n)
             a10 == Bit(iface.address, 10) = 1
             rw == cmd_name \in {"RD", "WR"}
         IN  [name |-> IF cmd_name = "PRE" /\ a10 THEN "PREA"
                       ELSE IF cmd_name = "ZQC"
                       THEN (IF a10 THEN "ZQCL" ELSE "ZQCS")
                       ELSE cmd_name,
              bank |-> IF \/ cmd_name \in {"MRS", "ACT", "RD", "WR"}
                          \/ cmd_name = "PRE" /\ ~a10
                       THEN iface.bank ELSE None,
              row |-> IF cmd_name = "ACT" THEN iface.address ELSE None,
              col |-> IF rw THEN iface.address % Pow2(12) ELSE None,
              burst |-> IF ~rw THEN ""
                        ELSE IF Bit(iface.address, 12) = 1 THEN "BL8"
                        ELSE "BC4"]

\* Bank.__init__
BankClosed == [is_active |-> FALSE, row |-> None]

ModelBanks == 0 .. 1

InitModelIdle ==
    /\ m_iface = IfaceIdle
    /\ m_cmd = NoCommand
    /\ m_passed = TRUE
    /\ m_banks = [b \in ModelBanks |-> BankClosed]
    /\ m_queue = << >>
    /\ m_storage = << >>
    /\ m_ret = << >>
    /\ m_log = << >>
    /\ m_ticks = 0
    /\ m_writes = << >>
    /\ d_again = NoCommand
    /\ d_pending = FALSE

(***************************************************************************)
(* The test bench's DRAM model: one call of tick() per rising edge.        *)
(***************************************************************************)
\* dfi_wrdata.n_bits // 8: the byte lanes of one DFI data word
NBytes == 2
\* the CL of the configuration: rising edges a read waits before it returns
CL == 2

\* (x >> (8 * i)) & 0xFF
ByteOf(x, i) == (x \div Pow2(8 * i)) % 256

\* the word whose lanes 0 .. n-1 hold the bytes dat[0] .. dat[n-1]
RECURSIVE WordOf(_, _)
WordOf(dat, n) ==
    IF n = 0 THEN 0
    ELSE dat[n - 1] * Pow2(8 * (n - 1)) + WordOf(dat, n - 1)

\* self.storage.get(key, 0x00)
StorageGet(storage, key) ==
    IF key \in DOMAIN storage THEN storage[key] ELSE 0

\* Fault variant: the mask is ignored, every lane is stored.
StoreData_unmasked(storage, row, bank, col, data, mask) ==
    LET keys == {<< row, bank, col, i >> : i \in 0 .. (NBytes - 1)}
    IN  [k \in (DOMAIN storage) \cup keys |->
            IF k \in keys THEN ByteOf(data, k[4]) ELSE storage[k]]

\* the storage after the unmasked lanes of data are stored at (row, bank, col)
StoreData(storage, row, bank, col, data, mask) ==
    LET keys == {<< row, bank, col, i >> : i \in {l \in 0 .. (NBytes - 1) :
                                                   Bit(mask, l) = 0}}
    IN  [k \in (DOMAIN storage) \cup keys |->
            IF k \in keys THEN ByteOf(data, k[4]) ELSE storage[k]]

\* the word a read of (row, bank, col) restores from the storage
RestoreData(storage, row, bank, col) ==
    WordOf([i \in 0 .. (NBytes - 1) |->
               StorageGet(storage, << row, bank, col, i >>)], NBytes)

\* the outcome of handle_dfi_io on signals i, after the command of the same
\* edge has been handled; rnd is what random.randint gives when asked
handle_dfi_io(i, banks, queue, passed, storage, with_storage, rnd) ==
    LET idle == [passed |-> passed, queue |-> queue, storage |-> storage,
                 ret |-> << >>, log |-> << >>, waits |-> 0]
    IN
    IF i.wrdata_en = 1
    THEN IF queue = << >> \/ queue[1].name # "WR"
         THEN [idle EXCEPT !.passed = FALSE,
                  !.log = << "DFI write without pending DRAM write command" >>]
         ELSE LET cmd == queue[1]
                  bank == banks[cmd.bank]
              IN  IF ~bank.is_active
                  THEN [idle EXCEPT !.queue = Tail(queue),
                           !.log = << "DFI write to an inactive bank" >>]
                  ELSE [idle EXCEPT
                           !.queue = Tail(queue),
                           !.storage =
                               IF with_storage
                               THEN StoreData(storage, bank.row, cmd.bank,
                                              cmd.col, i.wrdata,
                                              i.wrdata_mask)
                               ELSE storage,
                           !.ret = << "WR", cmd.bank, bank.row, cmd.col,
                                      i.wrdata, i.wrdata_mask >>]
    ELSE IF i.rddata_en = 1
    THEN IF queue = << >> \/ queue[1].name # "RD"
         THEN [idle EXCEPT !.passed = FALSE,
                  !.log = << "DFI read without pending DRAM write command" >>]
         ELSE LET cmd == queue[1]
                  bank == banks[cmd.bank]
                  key == << bank.row, cmd.bank, cmd.col >>
                  data == IF with_storage
                          THEN RestoreData(storage, bank.row, cmd.bank,
                                           cmd.col)
                          ELSE IF key \in DOMAIN storage THEN storage[key]
                          ELSE rnd
              IN  IF ~bank.is_active
                  THEN [idle EXCEPT !.queue = Tail(queue),
                           !.log = << "DFI read from an inactive bank" >>]
                  ELSE [idle EXCEPT
                           !.queue = Tail(queue),
                           !.storage =
                               IF with_storage \/ key \in DOMAIN storage
                               THEN storage
                               ELSE [k \in (DOMAIN storage) \cup {key} |->
                                        IF k = key THEN rnd ELSE storage[k]],
                           !.ret = << "RD", cmd.bank, bank.row, cmd.col,
                                      data >>,
                           !.waits = CL]
    ELSE idle

\* the banks after the command is handled
\* Fault variant: a precharge of one bank closes every bank.
HandleBanks_pre_closes_all(banks, cmd) ==
    CASE cmd.name = "ACT" ->
            [banks EXCEPT ![cmd.bank] = [is_active |-> TRUE, row |-> cmd.row]]
      [] cmd.name \in {"PRE", "PREA"} -> [b \in DOMAIN banks |-> BankClosed]
      [] OTHER -> banks

HandleBanks(banks, cmd) ==
    CASE cmd.name = "ACT" ->
            [banks EXCEPT ![cmd.bank] = [is_active |-> TRUE, row |-> cmd.row]]
      [] cmd.name = "PRE" -> [banks EXCEPT ![cmd.bank] = BankClosed]
      [] cmd.name = "PREA" -> [b \in DOMAIN banks |-> BankClosed]
      [] OTHER -> banks

\* what the handling of the command logs
HandleLog(banks, cmd) ==
    CASE cmd.name = "ACT" /\ banks[cmd.bank].is_active
                          /\ banks[cmd.bank].row = cmd.row ->
            << "Attempted to activate an active bank/row" >>
      [] cmd.name = "WR" /\ ~banks[cmd.bank].is_active ->
            << "Attempted to write to an inactive bank" >>
      [] cmd.name = "RD" /\ ~banks[cmd.bank].is_active ->
            << "Attempted to read from an inactive bank" >>
      [] OTHER -> << >>

\* Fault variant: the verdict is that of the latest command alone.
AndPassed_latest(passed, result) == result

\* self.passed &= result
AndPassed(passed, result) == passed /\ result

\* DFIMonitor.final_phase: the run is failed when the model's verdict is
FinalPhaseFails == ~m_passed

MaxModelTicks == 4

\* One rising edge of the DFI clock with signals from inputs: tick() decodes
\* the command, has the timing checker (rules rs) check it, applies it to
\* the banks and the queue and handles the data phase.  A read that returns
\* data first waits CL further edges, which the model therefore never sees.
ModelTickWith(with_storage, inputs, rs, randoms) ==
    /\ m_ticks < MaxModelTicks
    /\ \E i \in inputs, rnd \in randoms :
         LET time == (m_ticks + 1) * ClkPeriodPs
             cmd == parse_dfi_command(i)
             checked == cmd.name \notin {"", "NOP"}
             errors == IF checked
                       THEN CheckErrorsFor(rs, 1, cmd.name, time,
                                           chk_cmd_time)
                       ELSE << >>
             rw == cmd.name \in {"RD", "WR"}
             passed1 == IF checked THEN AndPassed(m_passed, errors = << >>)
                        ELSE m_passed
             passed2 == IF rw /\ ~m_banks[cmd.bank].is_active
                        THEN FALSE ELSE passed1
             banks1 == HandleBanks(m_banks, cmd)
             queue1 == IF rw THEN Append(m_queue, cmd) ELSE m_queue
             io == handle_dfi_io(i, banks1, queue1, passed2, m_storage,
                                 with_storage, rnd)
         IN  /\ m_iface' = i
             /\ m_cmd' = cmd
             /\ m_passed' = io.passed
             /\ m_banks' = banks1
             /\ m_queue' = io.queue
             /\ m_storage' = io.storage
             /\ m_ret' = io.ret
             /\ m_log' = HandleLog(m_banks, cmd) \o io.log
             /\ m_ticks' = m_ticks + 1 + io.waits
             /\ m_writes' = IF io.ret # << >> /\ io.ret[1] = "WR"
                            THEN Append(m_writes, io.ret) ELSE m_writes
             /\ chk_results' = IF checked
                               THEN Append(chk_results, errors = << >>)
                               ELSE chk_results
             /\ chk_log' = chk_log \o errors
             /\ chk_cmd_time' = IF checked
                                THEN StoreTime(chk_cmd_time, cmd.name, time)
                                ELSE chk_cmd_time
             /\ chk_hist' = IF checked
                            THEN Append(chk_hist,
                                        [name |-> cmd.name, time |-> time])
                            ELSE chk_hist
    /\ UNCHANGED << d_again, d_pending >>
    /\ UNCHANGED << ctrl_vars, obs_vars, aux_vars, guard_vars >>

(***************************************************************************)
(* Observers and the specifications of the controller.                     *)
(***************************************************************************)
MaxDelay == 4
MaxSince == 6

Min(a, b) == IF a < b THEN a ELSE b

InitAux ==
    /\ since_timer = 0
    /\ p_req_i = FALSE
    /\ p_pulses = 0
    /\ s_phase = "none"
    /\ s_prea = 0
    /\ s_ref = 0
    /\ s_exec = 0
    /\ x_since = 0
    /\ z_since = 0
    /\ r_len = 0
    /\ t_len = 0
    /\ owed = 0
    /\ r_prea = 0
    /\ r_ref = 0
    /\ now = 0

InitObs ==
    /\ rd_streak = 0
    /\ wr_streak = 0
    /\ rd_run = 0
    /\ wr_run = 0
    /\ since_req = 0
    /\ since_last = 0
    /\ InitAux

InitGuardIdle ==
    /\ g_count = 0
    /\ g_valid = FALSE
    /\ g_delay = 0
    /\ g_armed = 0
    /\ g_since = 0

SinceNext(since, event, cap) ==
    IF event THEN 1
    ELSE IF since = 0 THEN 0
    ELSE Min(since + 1, cap)

Init == InitCtrl /\ InitObs /\ InitGuardIdle /\ InitChecker /\ InitModelIdle

Next == Tick /\ UNCHANGED << obs_vars, guard_vars, model_vars, chk_vars, aux_vars >>

Spec == Init /\ [][Next]_vars

\* The scheduler with the two streak counters running.
TickStarve ==
    /\ Tick
    /\ rd_streak' = IF mux_state' = "READ" /\ write_available'
                    THEN rd_streak + 1 ELSE 0
    /\ wr_streak' = IF mux_state' = "WRITE" /\ read_available'
                    THEN wr_streak + 1 ELSE 0
    /\ UNCHANGED << rd_run, wr_run, since_req, since_last, guard_vars, model_vars, chk_vars, aux_vars >>

SpecStarve == Init /\ [][TickStarve]_vars

\* The scheduler with the READ timeout of the read-heavy scenario and the
\* read streak counter running.
ScenarioReadTime == 20
\* read and write column requests only, beside the refresh handshake
ScenarioKinds == {"idle", "rd", "wr"} \cup RefreshKinds

InitScenario ==
    /\ Init
    /\ timing_regs.postponing = 1

TickScenario ==
    /\ TickCfg(ScenarioKinds, ScenarioReadTime, write_time)
    /\ rd_streak' = IF mux_state' = "READ" /\ write_available'
                    THEN rd_streak + 1 ELSE 0
    /\ UNCHANGED << wr_streak, rd_run, wr_run, since_req, since_last,
                 guard_vars, model_vars, chk_vars, aux_vars >>

SpecScenario == InitScenario /\ [][TickScenario]_vars

\* The refresher with the two interval counters running, each saturating
\* one cycle above the period of the refresh requests.  The bank machines
\* issue no command requests here: they only take part in the refresh
\* handshake, granting after any number of cycles.
QuietKinds == {"idle"} \cup RefreshKinds
RefreshPeriod == timing_regs.tREFI * timing_regs.postponing

TickRefresh ==
    /\ TickWith(QuietKinds)
    /\ since_req' = SinceNext(since_req, wants_refresh, RefreshPeriod + 1)
    /\ since_last' = SinceNext(since_last, refresher_cmd_last,
                               RefreshPeriod + 1)
    /\ UNCHANGED << rd_streak, wr_streak, rd_run, wr_run, guard_vars, model_vars, chk_vars, aux_vars >>

SpecRefresh == Init /\ [][TickRefresh]_vars

\* The Refresher with and without the tZQCS register, for several depths of
\* postponing and values of tRP, tRFC and tZQCS.  The refresh interval
\* stays longer than a refresh sequence, as it is in every usable setting
\* of the registers.  The bank machines only take part in the handshake.
RefresherConfigs ==
    { [postponing |-> n, tREFI |-> MaxTREFI * n, tRP |-> p[1], tRFC |-> p[2],
       tRRD |-> 1, tFAW |-> 0, tCCD |-> 1, tWTR |-> 1,
       has_tZQCS |-> z[1], tZQCS |-> z[2],
       nphases |-> 2, read_latency |-> None] :
      n \in 1 .. 3, p \in {<< 1, 1 >>, << 2, 1 >>, << 1, 3 >>},
      z \in {<< FALSE, 0 >>, << TRUE, 0 >>, << TRUE, 2 >>} }

InitRefresher ==
    /\ InitRegs(RefresherConfigs)
    /\ InitObs
    /\ InitGuardIdle
    /\ InitChecker
    /\ InitModelIdle

TickRefresher ==
    /\ TickWith(QuietKinds)
    /\ UNCHANGED << obs_vars, guard_vars, model_vars, chk_vars, aux_vars >>

SpecRefresher == InitRefresher /\ [][TickRefresher]_vars

\* The clock never stops.
SpecRefresherLive == SpecRefresher /\ WF_vars(TickRefresher)

\* The Refresher with what its cmd output carries counted from each
\* sequencer.start up to the sequencer.done that answers it.
MaxPasses == 4

\* tREFI is a register any value can be written to: both an interval longer
\* than the refresh sequence and the shortest one are taken.
SequencerConfigs ==
    { [postponing |-> n, tREFI |-> k, tRP |-> p[1], tRFC |-> p[2],
       tRRD |-> 1, tFAW |-> 0, tCCD |-> 1, tWTR |-> 1,
       has_tZQCS |-> FALSE, tZQCS |-> 0,
       nphases |-> 2, read_latency |-> None] :
      n \in 1 .. 3, k \in {2, MaxTREFI * 3},
      p \in {<< 1, 1 >>, << 2, 1 >>, << 1, 3 >>} }

InitSequencer ==
    /\ InitRegs(SequencerConfigs)
    /\ InitObs
    /\ InitGuardIdle
    /\ InitChecker
    /\ InitModelIdle

CountNext(n, event) == IF event THEN Min(n + 1, MaxPasses) ELSE n

TickSequencer ==
    /\ TickWith(QuietKinds)
    /\ s_phase' = IF sequencer_start THEN "run"
                  ELSE IF s_phase = "run" /\ seq_done' THEN "done"
                  ELSE s_phase
    /\ s_prea' = IF sequencer_start THEN 0
                 ELSE IF s_phase # "run" THEN s_prea
                 ELSE CountNext(s_prea, ref_cmd' = CmdPrechargeAll)
    /\ s_ref' = IF sequencer_start THEN 0
                ELSE IF s_phase # "run" THEN s_ref
                ELSE CountNext(s_ref, ref_cmd' = CmdAutoRefresh)
    /\ s_exec' = IF sequencer_start THEN 0
                 ELSE IF s_phase # "run" THEN s_exec
                 ELSE CountNext(s_exec, exec_done')
    /\ UNCHANGED << obs_vars, guard_vars, model_vars, chk_vars, since_timer, p_req_i,
                    p_pulses, x_since, z_since,
                    run_obs >>

SpecSequencer == InitSequencer /\ [][TickSequencer]_vars

\* One RefreshExecutor on its own, for every tRP and tRFC from 1 up that
\* the registers hold, its start input driven at will from the first cycle
\* after reset on (in the Refresher start is a register that resets to 0).
MaxExecSince == 8

ExecutorConfigs ==
    { [postponing |-> 1, tREFI |-> MaxTREFI, tRP |-> p, tRFC |-> f,
       tRRD |-> 1, tFAW |-> 0, tCCD |-> 1, tWTR |-> 1,
       has_tZQCS |-> FALSE, tZQCS |-> 0,
       nphases |-> 2, read_latency |-> None] :
      p \in 1 .. Pow2(tRP_nbits) - 1, f \in 1 .. Pow2(tRFC_nbits) - 1 }

InitExecutor ==
    /\ InitRegs(ExecutorConfigs)
    /\ InitObs
    /\ InitGuardIdle
    /\ InitChecker
    /\ InitModelIdle

ExecutorTick ==
    /\ exec_start' \in BOOLEAN
    /\ ref_cmd' = ExecutorNextCmd(tlc_counter, exec_start, timing_regs.tRP,
                                  timing_regs.tRFC)
    /\ exec_done' = ExecutorNextDone(tlc_counter, timing_regs.tRP,
                                     timing_regs.tRFC)
    /\ tlc_counter' = TimelineCounterNext(tlc_counter, exec_start, counter)
    /\ counter' = ExecutorNextCounter(timing_regs.tRP, timing_regs.tRFC)
    /\ x_since' = SinceNext(x_since, ref_cmd = CmdPrechargeAll, MaxExecSince)
    /\ UNCHANGED << timing_regs, bm, mux_state, rtw_cnt, rd_time, wr_time,
                    trrd_count, tfaw_window, tccd_count, twtr_count,
                    cmd_grant, req_grant, ref_state, timer_count, post_count,
                    req_o, seq_count, seq_done, wants_zqcs, zq_timer_count,
                    zq_tlc_counter, zq_counter, zq_done >>
    /\ UNCHANGED << obs_vars, guard_vars, model_vars, chk_vars, since_timer, p_req_i,
                    p_pulses, seq_obs, z_since,
                    run_obs >>

SpecExecutor == InitExecutor /\ [][ExecutorTick]_vars

\* The Refresher with the time since the ZQCSExecutor was started measured.
MaxZqSince == 7

TickZqcs ==
    /\ TickWith(QuietKinds)
    /\ z_since' = SinceNext(z_since, zqcs_executor_start, MaxZqSince)
    /\ UNCHANGED << obs_vars, guard_vars, model_vars, chk_vars, since_timer, p_req_i,
                    p_pulses, seq_obs, x_since, run_obs >>

SpecZqcs == InitRefresher /\ [][TickZqcs]_vars

\* The single-refresh scenario: postponing 1, no ZQCS register, a refresh
\* interval longer than the sequence, read and write requests at will, and
\* each stay of the scheduler in REFRESH measured.
MaxRefreshLen == 10

SingleRefreshConfigs ==
    { [postponing |-> 1, tREFI |-> 2 * MaxTREFI, tRP |-> p[1], tRFC |-> p[2],
       tRRD |-> 1, tFAW |-> 0, tCCD |-> 1, tWTR |-> 1,
       has_tZQCS |-> FALSE, tZQCS |-> 0,
       nphases |-> 2, read_latency |-> None] :
      p \in {<< 1, 1 >>, << 2, 1 >>, << 1, 3 >>} }

InitSingleRefresh ==
    /\ InitRegs(SingleRefreshConfigs)
    /\ InitObs
    /\ InitGuardIdle
    /\ InitChecker
    /\ InitModelIdle

TickSingleRefresh ==
    /\ TickWith(ScenarioKinds)
    /\ r_len' = IF mux_state' = "REFRESH"
                THEN Min(r_len + 1, MaxRefreshLen) ELSE 0
    /\ r_prea' = IF mux_state' # "REFRESH" THEN 0
                 ELSE CountNext(r_prea, ref_cmd' = CmdPrechargeAll)
    /\ r_ref' = IF mux_state' # "REFRESH" THEN 0
                ELSE CountNext(r_ref, ref_cmd' = CmdAutoRefresh)
    /\ UNCHANGED << obs_vars, guard_vars, model_vars, chk_vars, since_timer,
                    p_req_i, p_pulses, seq_obs, x_since, z_since, t_len, owed,
                    now >>

SpecSingleRefresh == InitSingleRefresh /\ [][TickSingleRefresh]_vars

\* The idle test: no read or write traffic, the commands the steerer puts
\* on DFI phase 0 decoded as the DRAM model decodes them and checked by a
\* TimingChecker built from the values the timing registers hold.
MaxCycles == 40

IdleConfigs ==
    { [postponing |-> n, tREFI |-> k * n, tRP |-> p[1], tRFC |-> p[2],
       tRRD |-> 1, tFAW |-> 0, tCCD |-> 1, tWTR |-> 1,
       has_tZQCS |-> z[1], tZQCS |-> z[2],
       nphases |-> 2, read_latency |-> None] :
      n \in 1 .. 2, k \in {1, MaxTREFI},
      p \in {<< 1, 1 >>, << 2, 1 >>, << 1, 3 >>},
      z \in {<< FALSE, 0 >>, << TRUE, 2 >>} }

\* the timings of the test bench with the registers' values in them
RegisterTimings ==
    [Timings EXCEPT !.tRP = timing_regs.tRP, !.tRFC = timing_regs.tRFC,
                    !.tREFI = timing_regs.tREFI,
                    !.tZQCS = timing_regs.tZQCS]

\* the steerer passes cmd.ras/cas/we of the selected command on only while
\* its valid and ready are both 1; DFI carries them inverted
dfi_p0 ==
    IF steerer_sel(0) = STEER_REFRESH /\ refresher_cmd_valid
                                      /\ refresher_cmd_ready
    THEN [IfaceIdle EXCEPT !.ras_n = 1 - ref_cmd.ras,
                           !.cas_n = 1 - ref_cmd.cas,
                           !.we_n = 1 - ref_cmd.we,
                           !.address = ref_cmd.a10 * Pow2(10)]
    ELSE IfaceIdle

InitIdle ==
    /\ InitRegs(IdleConfigs)
    /\ InitObs
    /\ InitGuardIdle
    /\ InitChecker
    /\ InitModelIdle

IdleTick ==
    /\ now < MaxCycles
    /\ TickWith(QuietKinds)
    /\ now' = now + 1
    /\ LET name == parse_dfi_command(dfi_p0).name
           time == now * ClkPeriodPs
           errors == CheckErrorsFor(BuildRulesFor(RegisterTimings, 1), 1,
                                    name, time, chk_cmd_time)
       IN  IF name \in {"", "NOP"}
           THEN UNCHANGED chk_vars
           ELSE /\ chk_results' = Append(chk_results, errors = << >>)
                /\ chk_log' = chk_log \o errors
                /\ chk_cmd_time' = StoreTime(chk_cmd_time, name, time)
                /\ chk_hist' = Append(chk_hist,
                                      [name |-> name, time |-> time])
    /\ UNCHANGED << obs_vars, guard_vars, model_vars, since_timer, p_req_i, p_pulses,
                    seq_obs, x_since, z_since, r_len, t_len, owed, r_prea,
                    r_ref >>

SpecIdle == InitIdle /\ [][IdleTick]_vars

\* The refresh timer inside the Refresher, for every held value of tREFI
\* from 2 up, with the interval between its done pulses measured.
TimerConfigs ==
    { [postponing |-> 1, tREFI |-> k, tRP |-> 1, tRFC |-> 1,
       tRRD |-> 1, tFAW |-> 0, tCCD |-> 1, tWTR |-> 1,
       has_tZQCS |-> FALSE, tZQCS |-> 0,
       nphases |-> 2, read_latency |-> None] : k \in 2 .. MaxTREFI }

InitTimer ==
    /\ InitRegs(TimerConfigs)
    /\ InitObs
    /\ InitGuardIdle
    /\ InitChecker
    /\ InitModelIdle

TickTimer ==
    /\ TickWith(QuietKinds)
    /\ since_timer' = SinceNext(since_timer, timer_done,
                                timing_regs.tREFI + 1)
    /\ UNCHANGED << obs_vars, guard_vars, model_vars, chk_vars, p_req_i, p_pulses,
                    seq_obs, x_since, z_since,
                    run_obs >>

SpecTimer == InitTimer /\ [][TickTimer]_vars

\* One RefreshPostponer on its own, postponing 1 .. 8, its req_i input
\* driven at will for up to MaxPulses pulses.
MaxPostponing == 8
MaxPulses == 17

PostponerConfigs ==
    { [postponing |-> n, tREFI |-> MaxTREFI, tRP |-> 1, tRFC |-> 1,
       tRRD |-> 1, tFAW |-> 0, tCCD |-> 1, tWTR |-> 1,
       has_tZQCS |-> FALSE, tZQCS |-> 0,
       nphases |-> 2, read_latency |-> None] : n \in 1 .. MaxPostponing }

InitPostponer ==
    /\ InitRegs(PostponerConfigs)
    /\ rd_streak = 0
    /\ wr_streak = 0
    /\ rd_run = 0
    /\ wr_run = 0
    /\ since_req = 0
    /\ since_last = 0
    /\ since_timer = 0
    /\ p_req_i \in BOOLEAN
    /\ p_pulses = 0
    /\ s_phase = "none"
    /\ s_prea = 0
    /\ s_ref = 0
    /\ s_exec = 0
    /\ x_since = 0
    /\ z_since = 0
    /\ r_len = 0
    /\ t_len = 0
    /\ owed = 0
    /\ r_prea = 0
    /\ r_ref = 0
    /\ now = 0
    /\ InitGuardIdle
    /\ InitChecker
    /\ InitModelIdle

PostponerTick ==
    /\ post_count' = PostponerNextCount(post_count, p_req_i,
                                        timing_regs.postponing)
    /\ req_o' = PostponerNextReqO(post_count, p_req_i)
    /\ p_pulses' = IF p_req_i THEN p_pulses + 1 ELSE p_pulses
    /\ p_req_i' \in IF p_pulses' < MaxPulses THEN BOOLEAN ELSE {FALSE}
    /\ UNCHANGED << timing_regs, bm, mux_state, rtw_cnt, rd_time, wr_time,
                    trrd_count, tfaw_window, tccd_count, twtr_count,
                    cmd_grant, req_grant, ref_state, timer_count, seq_count,
                    exec_start, exec_done, seq_done, ref_cmd, tlc_counter,
                    counter, wants_zqcs, zq_timer_count, zq_tlc_counter,
                    zq_counter, zq_done >>
    /\ UNCHANGED << obs_vars, guard_vars, model_vars, chk_vars, since_timer, seq_obs,
                    x_since, z_since,
                    run_obs >>

SpecPostponer == InitPostponer /\ [][PostponerTick]_vars

\* The decoder alone: any command code on any bank with addresses that set
\* and clear bits 10 and 12, chip select and clock enable on or off, each
\* sampled value decoded twice with the bank state and the verdict
\* rewritten at will in between.
DecodeAddresses == {5, Pow2(10) + 5, Pow2(12) + 5, Pow2(12) + Pow2(10) + 5}

DecodeInputs ==
    { [IfaceIdle EXCEPT !.cke = e[1], !.cs_n = e[2], !.ras_n = c[1],
                        !.cas_n = c[2], !.we_n = c[3], !.bank = b,
                        !.address = a] :
      e \in {<< 1, 0 >>}, c \in {0, 1} \X {0, 1} \X {0, 1},
      b \in ModelBanks, a \in DecodeAddresses }
    \cup
    { [IfaceIdle EXCEPT !.cke = e[1], !.cs_n = e[2], !.ras_n = c[1],
                        !.cas_n = c[2], !.we_n = c[3],
                        !.address = Pow2(10) + 5] :
      e \in {<< 0, 0 >>, << 1, 1 >>, << 0, 1 >>},
      c \in {<< 0, 1, 1 >>, << 0, 1, 0 >>, << 1, 1, 1 >>} }

BankStates == {BankClosed, [is_active |-> TRUE, row |-> 5]}

InitDecode ==
    /\ InitCtrl
    /\ timing_regs.postponing = 1
    /\ InitObs
    /\ InitGuardIdle
    /\ InitChecker
    /\ m_iface \in DecodeInputs
    /\ m_cmd = NoCommand
    /\ m_passed = TRUE
    /\ m_banks = [b \in ModelBanks |-> BankClosed]
    /\ m_queue = << >>
    /\ m_storage = << >>
    /\ m_ret = << >>
    /\ m_log = << >>
    /\ m_ticks = 0
    /\ m_writes = << >>
    /\ d_again = NoCommand
    /\ d_pending = FALSE

Decode ==
    /\ ~d_pending
    /\ m_cmd' = parse_dfi_command(m_iface)
    /\ d_pending' = TRUE
    /\ m_banks' \in [ModelBanks -> BankStates]
    /\ m_passed' \in BOOLEAN
    /\ UNCHANGED << m_iface, m_queue, m_storage, m_ret, m_log, m_ticks,
                    m_writes, d_again >>
    /\ UNCHANGED << ctrl_vars, obs_vars, guard_vars, chk_vars, aux_vars >>

DecodeAgain ==
    /\ d_pending
    /\ d_again' = parse_dfi_command(m_iface)
    /\ d_pending' = FALSE
    /\ m_iface' \in DecodeInputs
    /\ UNCHANGED << m_cmd, m_passed, m_banks, m_queue, m_storage, m_ret,
                    m_log, m_ticks, m_writes >>
    /\ UNCHANGED << ctrl_vars, obs_vars, guard_vars, chk_vars, aux_vars >>

SpecDecode == InitDecode /\ [][Decode \/ DecodeAgain]_vars

\* The DRAM model without storage, driven with any of a few commands and
\* data phases at each rising edge, its timings short enough for legal and
\* illegal successions to fit into a few edges.
ModelTimings ==
    [tRP |-> 1, tRCD |-> 1, tWR |-> 1, tWTR |-> 1, tREFI |-> 586,
     tRFC |-> 1, tFAW |-> 1, tCCD |-> 1, tRRD |-> 1, tRC |-> 2,
     tRAS |-> 1, tZQCS |-> 1]

ModelRules == BuildRulesFor(ModelTimings, 1)

\* the signals of a command with the given code
Drive(code, bank, address) ==
    [IfaceIdle EXCEPT !.ras_n = code[1], !.cas_n = code[2],
                      !.we_n = code[3], !.bank = bank, !.address = address]

ModelCommands ==
    {Drive(<< 0, 1, 1 >>, 0, 1), Drive(<< 0, 1, 1 >>, 0, 2),
     Drive(<< 0, 1, 1 >>, 1, 1),
     Drive(<< 0, 1, 0 >>, 0, 0), Drive(<< 0, 1, 0 >>, 0, Pow2(10)),
     Drive(<< 1, 0, 0 >>, 0, 3), Drive(<< 1, 0, 0 >>, 1, 3),
     Drive(<< 1, 0, 1 >>, 0, 3),
     [IfaceIdle EXCEPT !.cs_n = 1]}

\* data phases come with no command or with a precharge
ModelDataPhases ==
    {[c EXCEPT !.wrdata_en = e[1], !.rddata_en = e[2],
               !.wrdata = e[1] * 4660] :
     c \in {IfaceIdle, Drive(<< 0, 1, 0 >>, 0, 0),
            Drive(<< 0, 1, 0 >>, 0, Pow2(10))},
     e \in {<< 0, 0 >>, << 1, 0 >>, << 0, 1 >>}}

ModelInputs == ModelCommands \cup ModelDataPhases

RandomData == {4660, 43981}

InitModel ==
    /\ InitCtrl
    /\ timing_regs.postponing = 1
    /\ InitObs
    /\ InitGuardIdle
    /\ InitChecker
    /\ InitModelIdle

ModelTick == ModelTickWith(FALSE, ModelInputs, ModelRules, RandomData)

SpecModel == InitModel /\ [][ModelTick]_vars

\* The DRAM model with storage: bank 0 activated on either of two rows,
\* writes and reads of two columns with their data phase in the edge of the
\* command, the writes with either of two words (one for column 1) under
\* any mask.
StorageWrites(col, words) ==
    {[Drive(<< 1, 0, 0 >>, 0, col) EXCEPT !.wrdata_en = 1, !.wrdata = data,
                                          !.wrdata_mask = mask] :
     data \in words, mask \in 0 .. (Pow2(NBytes) - 1)}

StorageInputs ==
    {Drive(<< 0, 1, 1 >>, 0, 1), Drive(<< 0, 1, 1 >>, 0, 2)}
    \cup StorageWrites(0, {4660, 43981})
    \cup StorageWrites(1, {43981})
    \cup
    {[Drive(<< 1, 0, 1 >>, 0, col) EXCEPT !.rddata_en = 1] : col \in {0, 1}}

StorageTick == ModelTickWith(TRUE, StorageInputs, ModelRules, {0})

SpecStorage == InitModel /\ [][StorageTick]_vars

\* The scheduler with bank machines that ask for activates, reads and
\* writes and never grant a refresh, under
\* timings that let each of the tRRD, tFAW and tCCD guards hold a command
\* back, with two phases and with one.
GatingConfigs ==
    { [postponing |-> 1, tREFI |-> 2, tRP |-> 1, tRFC |-> 1,
       tRRD |-> g[1], tFAW |-> g[2], tCCD |-> g[3], tWTR |-> 1,
       has_tZQCS |-> FALSE, tZQCS |-> 0, nphases |-> g[4],
       read_latency |-> None] :
      g \in {<< 0, 4, 2, 2 >>, << 2, 0, 1, 2 >>, << 0, 4, 2, 1 >>} }

GatingKinds == {"idle", "rd", "wr", "act"}

InitGating ==
    /\ InitRegs(GatingConfigs)
    /\ InitObs
    /\ InitGuardIdle
    /\ InitChecker
    /\ InitModelIdle
    /\ InitAux

GatingTick ==
    /\ TickWith(GatingKinds)
    /\ UNCHANGED << obs_vars, guard_vars, model_vars, chk_vars, aux_vars >>

SpecGating == InitGating /\ [][GatingTick]_vars

\* The scheduler under PHY settings that give RTW delays of 1, 2, 3 and 4
\* cycles: read_latency stated (2, 4) or not, two phases or one.
TurnaroundConfigs ==
    { [postponing |-> 1, tREFI |-> 2, tRP |-> 1, tRFC |-> 1,
       tRRD |-> 1, tFAW |-> 0, tCCD |-> 1, tWTR |-> 1,
       has_tZQCS |-> FALSE, tZQCS |-> 0, nphases |-> p[1],
       read_latency |-> p[2]] :
      p \in {<< 2, None >>, << 2, 2 >>, << 2, 4 >>, << 1, None >>} }

MaxTurnaround == 8

InitTurnaround ==
    /\ InitRegs(TurnaroundConfigs)
    /\ InitObs
    /\ InitGuardIdle
    /\ InitChecker
    /\ InitModelIdle
    /\ InitAux

TurnaroundTick ==
    /\ TickWith(BMKinds)
    /\ t_len' = IF mux_state' \in {"RTW", "WTR"}
                THEN (IF mux_state' = mux_state
                      THEN Min(t_len + 1, MaxTurnaround) ELSE 1)
                ELSE 0
    /\ UNCHANGED << obs_vars, guard_vars, model_vars, chk_vars, since_timer,
                    p_req_i, p_pulses, seq_obs, x_since, z_since, r_len, owed,
                    r_prea, r_ref, now >>

SpecTurnaround == InitTurnaround /\ [][TurnaroundTick]_vars

\* The write-to-read guard alone, triggered at will, under every value the
\* tWTR and tCCD registers can hold.
WtrConfigs ==
    { [postponing |-> 1, tREFI |-> MaxTREFI, tRP |-> 1, tRFC |-> 1,
       tRRD |-> 1, tFAW |-> 0, tCCD |-> c, tWTR |-> w,
       has_tZQCS |-> FALSE, tZQCS |-> 0, nphases |-> 2,
       read_latency |-> None] :
      w \in 0 .. (Pow2(tWTR_nbits) - 1), c \in 0 .. (Pow2(tCCD_nbits) - 1) }

InitWtr ==
    /\ InitRegs(WtrConfigs)
    /\ InitObs
    /\ InitGuardIdle
    /\ InitChecker
    /\ InitModelIdle
    /\ InitAux

WtrTick ==
    /\ \E valid \in BOOLEAN :
          twtr_count' = GuardNext(twtr_count, valid, twtrcon_init)
    /\ UNCHANGED << timing_regs, bm, mux_state, rtw_cnt, rd_time, wr_time,
                    trrd_count, tfaw_window, tccd_count, cmd_grant,
                    req_grant, ref_state, timer_count, post_count, req_o,
                    seq_count, exec_start, exec_done, seq_done, ref_cmd,
                    tlc_counter, counter, wants_zqcs, zq_timer_count,
                    zq_tlc_counter, zq_counter, zq_done >>
    /\ UNCHANGED << obs_vars, guard_vars, model_vars, chk_vars, aux_vars >>

SpecWtr == InitWtr /\ [][WtrTick]_vars

\* One guard, triggered at will, its delay input rewritten at will.
(***************************************************************************)
(* The scheduler with requests and refresh grants as independent inputs.   *)
(***************************************************************************)
PriorityConfigs ==
    { [postponing |-> 1, tREFI |-> 3, tRP |-> 1, tRFC |-> 1,
       tRRD |-> 1, tFAW |-> 0, tCCD |-> 1, tWTR |-> 1,
       has_tZQCS |-> FALSE, tZQCS |-> 0,
       nphases |-> 2, read_latency |-> None] }

PriorityKinds == {"idle", "rd", "wr"} \cup RefreshKinds \cup GrantingKinds

InitPriority ==
    InitRegs(PriorityConfigs) /\ InitObs /\ InitGuardIdle /\ InitChecker
    /\ InitModelIdle /\ InitAux

PriorityTick ==
    /\ TickWith(PriorityKinds)
    /\ UNCHANGED << obs_vars, guard_vars, model_vars, chk_vars, aux_vars >>

SpecPriority == InitPriority /\ [][PriorityTick]_vars

\* C32: in READ (resp. WRITE), a cycle in which every bank machine grants
\* the refresh and the turnaround condition towards RTW (resp. WTR) holds
\* too is followed by REFRESH.
C32_RefreshPriority ==
    [][ /\ (mux_state = "READ" /\ go_to_refresh /\ write_available
            /\ (~read_available \/ max_read_time))
           => mux_state' = "REFRESH"
        /\ (mux_state = "WRITE" /\ go_to_refresh /\ read_available
            /\ (~write_available \/ max_write_time))
           => mux_state' = "REFRESH" ]_vars

C32_Witness ==
    /\ mux_state = "READ"
    /\ go_to_refresh
    /\ read_available /\ write_available /\ max_read_time

(***************************************************************************)
(* The scheduler with the lengths of its READ and WRITE windows counted.   *)
(***************************************************************************)
MaxWindow == 4

WindowTick ==
    /\ TickWith(ScenarioKinds)
    /\ rd_run' = IF mux_state = "READ" /\ mux_state' = "READ"
                 THEN Min(rd_run + 1, MaxWindow) ELSE 0
    /\ wr_run' = IF mux_state = "WRITE" /\ mux_state' = "WRITE"
                 THEN Min(wr_run + 1, MaxWindow) ELSE 0
    /\ UNCHANGED << rd_streak, wr_streak, since_req, since_last, guard_vars,
                    model_vars, chk_vars, aux_vars >>

SpecWindow == InitScenario /\ [][WindowTick]_vars

\* C33: max_read_time (resp. max_write_time) is asserted in READ (resp.
\* WRITE) only in the read_time-th (resp. write_time-th) consecutive cycle
\* of the state or later; from reset on, the scheduler never leaves READ
\* for RTW (resp. WRITE for WTR) with a read (resp. write) pending before
\* that many cycles have elapsed in the state.
C33_MinimumWindow ==
    /\ [](mux_state = "READ" /\ max_read_time => rd_run + 1 >= read_time)
    /\ [](mux_state = "WRITE" /\ max_write_time => wr_run + 1 >= write_time)
    /\ [][ /\ (mux_state = "READ" /\ read_available /\ mux_state' = MuxEnterRTW)
               => rd_run + 1 >= read_time
           /\ (mux_state = "WRITE" /\ write_available /\ mux_state' = "WTR")
               => wr_run + 1 >= write_time ]_vars

(***************************************************************************)
(* The Refresher with the wants_refresh pulses counted against the         *)
(* refresh sequences it starts.                                            *)
(***************************************************************************)
MaxOwed == 3

OwedConfigs ==
    { [postponing |-> n, tREFI |-> MaxTREFI, tRP |-> 1, tRFC |-> f,
       tRRD |-> 1, tFAW |-> 0, tCCD |-> 1, tWTR |-> 1,
       has_tZQCS |-> FALSE, tZQCS |-> 0,
       nphases |-> 2, read_latency |-> None] :
      n \in 1 .. 2, f \in {1, 3} }

InitOwed ==
    InitRegs(OwedConfigs) /\ InitObs /\ InitGuardIdle /\ InitChecker
    /\ InitModelIdle

OwedTick ==
    /\ TickWith(QuietKinds)
    /\ owed' = Min(MaxOwed, owed + (IF wants_refresh THEN 1 ELSE 0))
                - (IF sequencer_start /\ owed > 0 THEN 1 ELSE 0)
    /\ UNCHANGED << obs_vars, guard_vars, model_vars, chk_vars, since_timer,
                    p_req_i, p_pulses, seq_obs, x_since, z_since, r_len, t_len,
                    r_prea, r_ref, now >>

SpecOwed == InitOwed /\ [][OwedTick]_vars

\* C35: every wants_refresh pulse leads to a refresh sequence of its own,
\* also when it arrives with the Refresher FSM outside IDLE: once the FSM
\* is back in IDLE with no pulse present no pulse is left without its
\* sequence, and the number of pulses waiting for theirs stays bounded.
C35_NoRequestLost ==
    /\ (ref_state = "IDLE" /\ ~wants_refresh) => owed = 0
    /\ owed < MaxOwed

(***************************************************************************)
(* The refresh executor alone for every value of its two registers, 0      *)
(* included.                                                               *)
(***************************************************************************)
SilentConfigs ==
    { [postponing |-> 1, tREFI |-> MaxTREFI, tRP |-> p, tRFC |-> f,
       tRRD |-> 1, tFAW |-> 0, tCCD |-> 1, tWTR |-> 1,
       has_tZQCS |-> FALSE, tZQCS |-> 0,
       nphases |-> 2, read_latency |-> None] :
      p \in 0 .. Pow2(tRP_nbits) - 1, f \in 0 .. Pow2(tRFC_nbits) - 1 }

InitSilent ==
    InitRegs(SilentConfigs) /\ InitObs /\ InitGuardIdle /\ InitChecker
    /\ InitModelIdle

SpecSilent == InitSilent /\ [][ExecutorTick]_vars

\* C36: for every tRP and tRFC, 0 included, the executor's cmd and done are
\* all 0 at reset and after every cycle in which no pass is running and
\* start is not asserted.
C36_IdleSilent ==
    /\ (ref_cmd = CmdNone /\ exec_done = FALSE)
    /\ [][ (tlc_counter = 0 /\ ~exec_start)
             => (ref_cmd' = CmdNone /\ exec_done' = FALSE) ]_vars

(***************************************************************************)
(* The DRAM model fed every kind of command, for its bank states.          *)
(***************************************************************************)
BankInputs ==
    {Drive(<< 0, 1, 1 >>, 0, 0), Drive(<< 0, 1, 1 >>, 0, 2),
     Drive(<< 0, 1, 1 >>, 1, 1),
     Drive(<< 0, 1, 0 >>, 0, 0), Drive(<< 0, 1, 0 >>, 0, Pow2(10)),
     Drive(<< 1, 0, 0 >>, 0, 3), Drive(<< 1, 0, 1 >>, 1, 3),
     Drive(<< 0, 0, 1 >>, 0, 0), Drive(<< 0, 0, 0 >>, 1, 5),
     Drive(<< 1, 1, 0 >>, 0, 0), Drive(<< 1, 1, 1 >>, 0, 0)}

BankTick == ModelTickWith(FALSE, BankInputs, ModelRules, {0})

SpecBanks == InitModel /\ [][BankTick]_vars

\* C37: every bank starts closed; ACT opens its bank on its row, PRE closes
\* its bank only, PREA closes every bank, and no other command (RD, WR, REF,
\* MRS, ZQC, NOP, none) changes any bank, so a bank is open on row r exactly
\* when the last ACT, PRE or PREA that affected it was an ACT of row r; a
\* bank's row is set if and only if the bank is active.
C37_BankState ==
    /\ \A b \in ModelBanks : m_banks[b] = BankClosed
    /\ [](\A b \in ModelBanks : m_banks[b].is_active <=> m_banks[b].row # None)
    /\ [][ \A b \in ModelBanks :
             m_banks'[b] =
               IF m_cmd'.name = "ACT" /\ m_cmd'.bank = b
               THEN [is_active |-> TRUE, row |-> m_cmd'.row]
               ELSE IF m_cmd'.name = "PRE" /\ m_cmd'.bank = b THEN BankClosed
               ELSE IF m_cmd'.name = "PREA" THEN BankClosed
               ELSE m_banks[b] ]_vars

\* both banks open, then bank 0 precharged and opened on another row
C37_Witness ==
    /\ m_cmd.name = "ACT" /\ m_cmd.bank = 0 /\ m_cmd.row = 0
    /\ m_banks[0] = [is_active |-> TRUE, row |-> 0]
    /\ m_banks[1] = [is_active |-> TRUE, row |-> 1]
    /\ Len(chk_hist) = 4
    /\ chk_hist[3].name = "PRE"

(***************************************************************************)
(* The Refresher with both executors, for every value the tRP, tRFC and    *)
(* tZQCS registers can hold.                                               *)
(***************************************************************************)
SizingConfigs ==
    { [postponing |-> 1, tREFI |-> MaxTREFI, tRP |-> p, tRFC |-> f,
       tRRD |-> 1, tFAW |-> 0, tCCD |-> 1, tWTR |-> 1,
       has_tZQCS |-> TRUE, tZQCS |-> z,
       nphases |-> 2, read_latency |-> None] :
      p \in 0 .. Pow2(tRP_nbits) - 1, f \in 0 .. Pow2(tRFC_nbits) - 1,
      z \in 0 .. Pow2(tZQCS_nbits) - 1 }

InitSizing ==
    InitRegs(SizingConfigs) /\ InitObs /\ InitGuardIdle /\ InitChecker
    /\ InitModelIdle

SpecSizing == InitSizing /\ [][TickRefresher]_vars

\* register widths the sizing rule is evaluated for
MaxNbits == 3

\* C39: for every tRP, tRFC pair, tRP + tRFC is held without wrap-around by
\* the executor's registered target and fits the TimelineCounter, whose
\* count reaches it; the same for tRP + tZQCS in the ZQCS executor; and the
\* widths the code computes suffice for registers of any widths.
C39_CounterSizing ==
    /\ [](timing_regs.tRP + timing_regs.tRFC < Pow2(counter_width))
    /\ [](timing_regs.tRP + timing_regs.tRFC < Pow2(tlc_width))
    /\ [](timing_regs.tRP + timing_regs.tZQCS < Pow2(zq_counter_width))
    /\ [](timing_regs.tRP + timing_regs.tZQCS < Pow2(zq_tlc_width))
    /\ [](tlc_counter <= timing_regs.tRP + timing_regs.tRFC)
    /\ [](zq_tlc_counter <= timing_regs.tRP + timing_regs.tZQCS)
    /\ [][ /\ counter' = timing_regs.tRP + timing_regs.tRFC
           /\ zq_counter' = timing_regs.tRP + timing_regs.tZQCS ]_vars
    /\ [](\A a, b \in 1 .. MaxNbits :
            \A p \in 0 .. Pow2(a) - 1, f \in 0 .. Pow2(b) - 1 :
               /\ (p + f) % Pow2(CounterBits(a, b)) = p + f
               /\ p + f < Pow2(TimelineBits(a, b)))

\* the largest sums: both counts at 3 + 3
C39_Witness ==
    /\ timing_regs.tRP = 3 /\ timing_regs.tRFC = 3 /\ timing_regs.tZQCS = 3
    /\ counter = 6 /\ zq_counter = 6
    /\ zq_tlc_counter = 6

InitGuard ==
    /\ InitCtrl
    /\ InitObs
    /\ g_count = 0
    /\ g_valid \in BOOLEAN
    /\ g_delay \in 0 .. MaxDelay
    /\ g_armed = 0
    /\ g_since = 0
    /\ InitChecker
    /\ InitModelIdle

GuardTick ==
    /\ g_count' = GuardNext(g_count, g_valid, g_delay)
    /\ g_armed' = IF g_valid THEN g_delay ELSE g_armed
    /\ g_since' = SinceNext(g_since, g_valid, MaxSince)
    /\ g_valid' \in BOOLEAN
    /\ g_delay' \in 0 .. MaxDelay
    /\ UNCHANGED << ctrl_vars, obs_vars, aux_vars, chk_vars, model_vars >>

SpecGuard == InitGuard /\ [][GuardTick]_vars

\* The timing checker alone, handed any command at any step of time.
InitCheckerAlone ==
    /\ Init
    /\ timing_regs.postponing = 1

SpecChecker == InitCheckerAlone /\ [][CheckCommand]_vars


(***************************************************************************)
(* Properties of the scheduler and the refresher.                          *)
(***************************************************************************)
scheduler_output_valid == choose_cmd_valid \/ choose_req_valid
scheduler_accepts == choose_cmd_accept \/ choose_req_accept
refresher_accepted == refresher_cmd_valid /\ refresher_cmd_ready

\* C1 as stated: in every cycle at most one of "a command chosen by a
\* command chooser is valid" and "refresher.cmd.valid = 1" holds.
C1_ValidExclusive == ~(scheduler_output_valid /\ refresher_cmd_valid)

\* C1 amended: in every cycle at most one of "a command chosen by a command
\* chooser is accepted (cmd.valid and cmd.ready)" and "the Refresher's
\* command is accepted (refresher.cmd.valid and refresher.cmd.ready)" holds.
C1_AcceptExclusive == ~(scheduler_accepts /\ refresher_accepted)

\* The Refresher asserts cmd.valid in WAIT-BANK-MACHINES, not yet accepted,
\* in a cycle in which the scheduler accepts a bank machine's command.
C1_Witness ==
    /\ refresher_cmd_valid
    /\ ~refresher_cmd_ready
    /\ scheduler_accepts

\* C2: STEER_REFRESH is selected only in REFRESH; in REFRESH no chooser has
\* cmd.ready and every phase but phase 0 selects NOP; in the other states
\* no phase selects STEER_REFRESH and refresher.cmd.ready is 0.
C2_SingleWriter ==
    /\ \A i \in Phases :
         steerer_sel(i) = STEER_REFRESH => mux_state = "REFRESH"
    /\ mux_state = "REFRESH" =>
         /\ ~choose_cmd_ready
         /\ ~choose_req_ready
         /\ \A i \in Phases \ {0} : steerer_sel(i) = STEER_NOP
    /\ mux_state \in {"READ", "WRITE", "RTW", "WTR"} =>
         /\ \A i \in Phases : steerer_sel(i) # STEER_REFRESH
         /\ ~refresher_cmd_ready

\* The scheduler is in REFRESH and the Refresher's precharge-all is steered
\* to phase 0.
C2_Witness ==
    /\ mux_state = "REFRESH"
    /\ steerer_sel(0) = STEER_REFRESH
    /\ refresher_accepted
    /\ ref_cmd = CmdPrechargeAll

\* C5: the scheduler enters REFRESH only from READ or WRITE and only in a
\* cycle in which every bank machine asserts refresh_gnt; every bank
\* machine's refresh_req equals refresher.cmd.valid in every cycle.
C5_RefreshPrecondition ==
    /\ [][ (mux_state # "REFRESH" /\ mux_state' = "REFRESH") =>
             /\ mux_state \in {"READ", "WRITE"}
             /\ \A b \in Banks : refresh_gnt(b) ]_vars
    /\ [](\A b \in Banks : bm_refresh_req(b) = refresher_cmd_valid)

\* First cycle of a REFRESH entered from WRITE: the Refresher still waits
\* for the bank machines, and the write-to-read guard armed in WRITE is
\* still counting.
C5_Witness ==
    /\ mux_state = "REFRESH"
    /\ ref_state = "WAIT-BANK-MACHINES"
    /\ twtr_count > 0
    /\ \A b \in Banks : refresh_gnt(b)

\* C10: with not all bank machines granting, READ moves to RTW exactly when
\* a write is pending and (no read is pending or max_read_time), and else
\* stays in READ; WRITE moves to WTR exactly when a read is pending and (no
\* write is pending or max_write_time), and else stays in WRITE.
C10_Turnaround ==
    [][ /\ (mux_state = "READ" /\ ~go_to_refresh) =>
             IF write_available /\ (~read_available \/ max_read_time)
             THEN mux_state' = "RTW"
             ELSE mux_state' = "READ"
        /\ (mux_state = "WRITE" /\ ~go_to_refresh) =>
             IF read_available /\ (~write_available \/ max_write_time)
             THEN mux_state' = "WTR"
             ELSE mux_state' = "WRITE" ]_vars

\* In WTR right after a WRITE that the anti-starvation timer ended: a write
\* is still pending beside the read.
C10_Witness ==
    /\ mux_state = "WTR"
    /\ wr_time = 0
    /\ read_available
    /\ write_available


\* C3 as stated: the number of cycles between two consecutive cycles with
\* refresher.cmd.last never exceeds tREFI x postponing.
C3_CompletionInterval ==
    (refresher_cmd_last /\ since_last > 0) => since_last <= RefreshPeriod

\* C3 amended: with a constant tREFI >= 1, two consecutive refresh requests
\* (wants_refresh pulses of the postponer) are exactly tREFI x postponing
\* cycles apart.
C3_RequestInterval ==
    (wants_refresh /\ since_req > 0) => since_req = RefreshPeriod

\* A second refresh request, one period after the first, with postponing 2.
C3_Witness ==
    /\ wants_refresh
    /\ since_req = RefreshPeriod
    /\ timing_regs.postponing = 2

\* C4: for nonzero read_time and write_time, the scheduler is never in READ
\* with a write pending for more than read_time consecutive cycles, nor in
\* WRITE with a read pending for more than write_time consecutive cycles.
C4_NoStarvation ==
    (read_time # 0 /\ write_time # 0) =>
        /\ rd_streak <= read_time
        /\ wr_streak <= write_time

\* The read_time-th consecutive cycle in READ with a write pending, reads
\* still pending and the timer just expired.
C4_Witness ==
    /\ rd_streak = read_time
    /\ read_available
    /\ max_read_time

\* C6: a read column command is accepted only in a cycle in which the
\* write-to-read guard, armed by the last accepted write with delay
\* tWTR + write_latency + tCCD, reports ready.
C6_WriteToReadSpacing ==
    (choose_req_accept /\ choose_req_read) => twtrcon_ready

\* C9: the guard's ready is false in each of the D cycles after the most
\* recent trigger, D being the delay that trigger loaded, and true in every
\* other cycle; a trigger during a countdown restarts the full delay.
C9_GuardCorrectness ==
    GuardReady(g_count) <=> (g_since = 0 \/ g_since > g_armed)

\* The first ready cycle after a full delay of at least two cycles.
C9_Witness ==
    /\ g_armed >= 2
    /\ g_since = g_armed + 1
    /\ GuardReady(g_count)


(***************************************************************************)
(* Properties of the timing checker.                                       *)
(***************************************************************************)
\* position of the most recent occurrence of name before position i, 0: none
LastBefore(hist, i, name) ==
    LET js == {j \in 1 .. (i - 1) : hist[j].name = name}
    IN  IF js = {} THEN 0 ELSE CHOOSE j \in js : \A k \in js : k <= j

\* the pairs (rule, position) at which the command sequence breaks a rule
Violations(hist) ==
    {v \in (1 .. Len(rules)) \X (1 .. Len(hist)) :
        LET rule == rules[v[1]]
            j == LastBefore(hist, v[2], rule.prev)
        IN  /\ hist[v[2]].name = rule.curr
            /\ j # 0
            /\ hist[v[2]].time - hist[j].time < rule.delay}

\* C7: when every occurrence of a rule's successor comes at least the rule's
\* delay after the most recent earlier occurrence of its predecessor,
\* check_command has returned True for every command and logged no error.
C7_Soundness ==
    Violations(chk_hist) = {} =>
        /\ \A i \in 1 .. Len(chk_results) : chk_results[i]
        /\ chk_log = << >>

\* Three commands checked, most recent predecessors present, no rule broken.
C7_Witness ==
    /\ Len(chk_hist) = MaxCmds
    /\ Violations(chk_hist) = {}
    /\ chk_hist[1].name = "WR"
    /\ chk_hist[2].name = "RD"
    /\ chk_hist[2].time - chk_hist[1].time = DelayTim(Timings.tWTR)
    /\ chk_hist[3].name = "RD"

\* C8: when the command sequence breaks exactly one rule at exactly one
\* command, the checker has logged exactly one error, for that rule, whose
\* reported delay equals the time between the two commands, and
\* check_command returned False for that command only.
C8_Completeness ==
    Cardinality(Violations(chk_hist)) = 1 =>
        LET v == CHOOSE w \in Violations(chk_hist) : TRUE
            j == LastBefore(chk_hist, v[2], rules[v[1]].prev)
        IN  /\ Len(chk_log) = 1
            /\ chk_log[1].rule = v[1]
            /\ chk_log[1].actual * 10 = chk_hist[v[2]].time - chk_hist[j].time
            /\ \A i \in 1 .. Len(chk_results) : chk_results[i] <=> i # v[2]

\* WR then RD one clock later: only the tWTR rule of the two WR -> RD rules
\* is broken, and it is reported.
C8_Witness ==
    /\ Cardinality(Violations(chk_hist)) = 1
    /\ Len(chk_log) = 1
    /\ rules[chk_log[1].rule].name = "tWTR"
    /\ chk_log[1].actual = 1000
    /\ Len(chk_hist) = MaxCmds

\* C11: in REFRESH the scheduler stays in REFRESH in every cycle without
\* refresher.cmd.last and is in READ in the cycle after refresher.cmd.last;
\* REFRESH is left for no other state, also when entered from WRITE.
C11_RefreshExit ==
    [][ mux_state = "REFRESH" =>
          mux_state' = (IF refresher_cmd_last THEN "READ" ELSE "REFRESH")
      ]_vars

\* The last cycle of a REFRESH entered from WRITE: the write-to-read guard
\* armed in WRITE is still counting when cmd.last is asserted.
C11_Witness ==
    /\ mux_state = "REFRESH"
    /\ refresher_cmd_last
    /\ twtr_count > 0

\* C12: with the READ timeout set to 20 and a write continuously pending, a
\* scheduler that has been in READ for 20 consecutive cycles is in the
\* read-to-write turnaround state in the next cycle, whatever reads are
\* pending; the streak never grows beyond 20.
C12_ReadTimeoutScenario ==
    /\ [][ rd_streak = ScenarioReadTime => mux_state' = "RTW" ]_vars
    /\ [](rd_streak <= ScenarioReadTime)

\* The 20th consecutive cycle in READ with a write pending and reads still
\* pending.
C12_Witness ==
    /\ rd_streak = ScenarioReadTime
    /\ mux_state = "READ"
    /\ read_available
    /\ write_available

(***************************************************************************)
(* Properties of the Refresher and its parts.                              *)
(***************************************************************************)
\* C13: the Refresher FSM takes only the transitions IDLE ->
\* WAIT-BANK-MACHINES (refresh enabled and wants_refresh),
\* WAIT-BANK-MACHINES -> DO-REFRESH (cmd.ready, with sequencer.start in that
\* cycle), DO-REFRESH -> IDLE or DO-ZQCS (sequencer.done), DO-ZQCS -> IDLE
\* (zqcs_executor.done); cmd.valid is 1 in WAIT-BANK-MACHINES and while a
\* sequence runs; cmd.last is asserted exactly in the cycle in which the FSM
\* returns to IDLE, with cmd.valid 0; once the Sequencer is started,
\* cmd.last is eventually asserted.
C13_RefresherOrder ==
    /\ [][ ref_state' # ref_state =>
             \/ /\ ref_state = "IDLE" /\ ref_state' = "WAIT-BANK-MACHINES"
                /\ with_refresh /\ wants_refresh
             \/ /\ ref_state = "WAIT-BANK-MACHINES"
                /\ ref_state' = "DO-REFRESH"
                /\ refresher_cmd_ready /\ sequencer_start
             \/ /\ ref_state = "DO-REFRESH"
                /\ ref_state' \in {"IDLE", "DO-ZQCS"}
                /\ sequencer_done
             \/ /\ ref_state = "DO-ZQCS" /\ ref_state' = "IDLE"
                /\ zqcs_executor_done ]_vars
    /\ [][ refresher_cmd_last <=>
             (ref_state # "IDLE" /\ ref_state' = "IDLE") ]_vars
    /\ [](refresher_cmd_last => ~refresher_cmd_valid)
    /\ [](ref_state # "IDLE" /\ ~refresher_cmd_last => refresher_cmd_valid)
    /\ (sequencer_start ~> refresher_cmd_last)

\* The FSM returns to IDLE from DO-ZQCS: the ZQCS executor reports done and
\* cmd.last is asserted with cmd.valid 0.
C13_Witness ==
    /\ ref_state = "DO-ZQCS"
    /\ zqcs_executor_done
    /\ refresher_cmd_last
    /\ ~refresher_cmd_valid

\* C14: with tREFI held at K >= 2, timer.done is asserted for one cycle at
\* a time, consecutive assertions are exactly K cycles apart, and the count
\* reloads to K - 1 in the cycle after done and decrements by one in every
\* other cycle.
C14_TimerPeriod ==
    /\ [][ timer_done => ~timer_done' ]_vars
    /\ [](timer_done /\ since_timer > 0 => since_timer = timing_regs.tREFI)
    /\ [][ timer_count' = IF timer_done THEN timing_regs.tREFI - 1
                          ELSE timer_count - 1 ]_vars

\* A second done pulse, K cycles after the first, for the smallest K.
C14_Witness ==
    /\ timer_done
    /\ since_timer = timing_regs.tREFI
    /\ timing_regs.tREFI = 2

\* C15: with postponing N in 1 .. 8 and any sequence of req_i pulses, req_o
\* is asserted in the cycle after a req_i pulse, for one cycle, exactly when
\* that pulse is an N-th pulse counted from reset.
C15_OneOfN ==
    [][ req_o' <=> ( /\ p_req_i
                     /\ (p_pulses + 1) % timing_regs.postponing = 0 ) ]_vars

\* The second req_o of a postponer of 8, after sixteen pulses.
C15_Witness ==
    /\ req_o
    /\ timing_regs.postponing = MaxPostponing
    /\ p_pulses = 2 * MaxPostponing

\* C16: with postponing N and tRP, tRFC >= 1, one pulse on sequencer.start
\* makes the RefreshExecutor run exactly N passes (N precharge-all and N
\* auto-refresh commands), back to back while the Refresher FSM stays in
\* DO-REFRESH, and sequencer.done is asserted once, only after the N-th
\* pass has reported done.
C16_SequencerPasses ==
    /\ [](s_phase = "done" =>
            /\ s_prea = timing_regs.postponing
            /\ s_ref = timing_regs.postponing
            /\ s_exec = timing_regs.postponing)
    /\ [](s_phase = "run" => ref_state = "DO-REFRESH")
    /\ [][ s_phase = "run" /\ exec_done /\ seq_count # 0 =>
             ref_cmd' = CmdPrechargeAll ]_vars
    /\ [][ s_phase # "none" /\ seq_done' =>
             s_phase = "run" /\ s_exec' = timing_regs.postponing ]_vars

\* The sequencer.done that ends three passes.
C16_Witness ==
    /\ s_phase = "done"
    /\ seq_done
    /\ timing_regs.postponing = 3
    /\ s_prea = 3

\* C17: with tRP >= 1 and tRFC >= 1 held constant, a start while the
\* RefreshExecutor is idle makes it drive the precharge-all encoding for one
\* cycle, the auto-refresh encoding for one cycle exactly tRP cycles after
\* the precharge-all, and done for one cycle exactly tRP + tRFC cycles after
\* it; in every other cycle cmd is all 0 and done is 0.
C17_ExecutorTimeline ==
    /\ [][ ref_cmd' = CmdPrechargeAll <=> exec_start /\ tlc_counter = 0 ]_vars
    /\ [][ ref_cmd = CmdPrechargeAll => ref_cmd' # CmdPrechargeAll ]_vars
    /\ [](ref_cmd = CmdAutoRefresh <=> x_since = timing_regs.tRP)
    /\ [](exec_done <=> x_since = timing_regs.tRP + timing_regs.tRFC)
    /\ [](ref_cmd \in {CmdNone, CmdPrechargeAll, CmdAutoRefresh})
    /\ [](ref_cmd = CmdPrechargeAll => ~exec_done)

\* The done of a pass with the longest delays, the auto-refresh behind it.
C17_Witness ==
    /\ exec_done
    /\ timing_regs.tRP = 3
    /\ timing_regs.tRFC = 3
    /\ x_since = 6
    /\ ref_cmd = CmdNone

\* C18: when the tZQCS register exists, the ZQ short calibration sequence
\* (precharge-all, the ZQCS encoding tRP cycles after it, done tRP + tZQCS
\* cycles after it) is started only in the cycle where the Sequencer reports
\* done in DO-REFRESH with wants_zqcs set; the FSM holds cmd.valid in DO-ZQCS
\* and asserts cmd.last only when the ZQCS executor is done; without
\* wants_zqcs in that cycle, cmd.last is asserted and the FSM returns to IDLE
\* with no ZQCS command.
C18_ZqcsAfterRefresh ==
    /\ [][ zq_tlc_counter = 0 /\ zq_tlc_counter' # 0 =>
             /\ ref_state = "DO-REFRESH" /\ seq_done /\ wants_zqcs
             /\ ref_state' = "DO-ZQCS" ]_vars
    /\ [](z_since = 1 => ref_cmd = CmdPrechargeAll)
    /\ [](ref_cmd = CmdZQCS <=>
            z_since > 0 /\ z_since = 1 + timing_regs.tRP)
    /\ [](zq_done <=>
            z_since > 0 /\ z_since = 1 + timing_regs.tRP + timing_regs.tZQCS)
    /\ [](ref_state = "DO-ZQCS" =>
            /\ refresher_cmd_last <=> zq_done
            /\ refresher_cmd_valid <=> ~zq_done)
    /\ [](ref_cmd = CmdZQCS => ref_state = "DO-ZQCS")
    /\ [][ ref_state = "DO-REFRESH" /\ seq_done /\ ~wants_zqcs =>
             refresher_cmd_last /\ ref_state' = "IDLE" ]_vars

\* The ZQCS command on cmd, inside DO-ZQCS, after three refresh passes.
C18_Witness ==
    /\ ref_cmd = CmdZQCS
    /\ ref_state = "DO-ZQCS"
    /\ mux_state = "REFRESH"
    /\ timing_regs.postponing = 3
    /\ z_since = 1 + timing_regs.tRP

\* C19, as stated: with postponing = 1 and one pending refresh, exactly one
\* precharge-all/auto-refresh sequence is issued and the scheduler spends
\* tRP + tRFC cycles plus one grant cycle in REFRESH before it returns to
\* READ.
C19_RefreshDurationStated ==
    [][ mux_state = "REFRESH" /\ mux_state' # "REFRESH" =>
          /\ mux_state' = "READ"
          /\ r_prea = 1 /\ r_ref = 1
          /\ r_len = timing_regs.tRP + timing_regs.tRFC + 1 ]_vars

\* C19, amended: with postponing = 1, no ZQCS register and one pending
\* refresh, exactly one precharge-all/auto-refresh sequence is issued and
\* the scheduler spends tRP + tRFC + 4 cycles in REFRESH before it returns
\* to READ: the cycle of the grant, the cycle that registers
\* executor.start, the cycle that registers the precharge-all, the tRP +
\* tRFC cycles up to executor.done, and the cycle of sequencer.done.
C19_RefreshDuration ==
    [][ mux_state = "REFRESH" /\ mux_state' # "REFRESH" =>
          /\ mux_state' = "READ"
          /\ r_prea = 1 /\ r_ref = 1
          /\ r_len = timing_regs.tRP + timing_regs.tRFC + 4 ]_vars

\* The last cycle of a stay in REFRESH, with tRP = 1 and tRFC = 3.
C19_Witness ==
    /\ mux_state = "REFRESH"
    /\ refresher_cmd_last
    /\ timing_regs.tRFC = 3
    /\ r_len = 8
    /\ r_prea = 1
    /\ r_ref = 1

\* C20: with tRP >= 1, tRFC >= 1 and no read/write traffic, the commands
\* the Refresher emits, decoded by the DRAM model and checked by the
\* TimingChecker with the same timing values, produce no violation: every
\* REF comes at least tRP after the preceding PREA, every PREA at least tRFC
\* after the preceding REF, and every check_command returns True.
C20_IdleNoViolation ==
    /\ chk_log = << >>
    /\ \A i \in 1 .. Len(chk_results) : chk_results[i]
    /\ ( parse_dfi_command(dfi_p0).name = "REF" /\ chk_cmd_time["PREA"] # None =>
           now * ClkPeriodPs - chk_cmd_time["PREA"]
               >= DelayTim(timing_regs.tRP) )
    /\ ( parse_dfi_command(dfi_p0).name = "PREA" /\ chk_cmd_time["REF"] # None =>
           now * ClkPeriodPs - chk_cmd_time["REF"]
               >= DelayTim(timing_regs.tRFC) )

\* A refresh sequence of two passes and the ZQCS sequence behind it, all
\* six commands checked.
C20_Witness ==
    /\ timing_regs.postponing = 2
    /\ timing_regs.tREFI = 2 * MaxTREFI
    /\ Len(chk_hist) = 6
    /\ chk_hist[2].name = "REF"
    /\ chk_hist[3].name = "PREA"
    /\ chk_hist[4].name = "REF"
    /\ chk_hist[5].name = "PREA"
    /\ chk_hist[6].name = "ZQCS"
    /\ chk_results[6]

(***************************************************************************)
(* Properties of the DRAM model.                                           *)
(***************************************************************************)
\* the name the table gives a 3-bit code
TableName(code) ==
    CASE code = << 0, 0, 0 >> -> "MRS"
      [] code = << 0, 0, 1 >> -> "REF"
      [] code = << 0, 1, 0 >> -> "PRE"
      [] code = << 0, 1, 1 >> -> "ACT"
      [] code = << 1, 0, 0 >> -> "WR"
      [] code = << 1, 0, 1 >> -> "RD"
      [] code = << 1, 1, 1 >> -> "NOP"
      [] code = << 1, 1, 0 >> -> "ZQC"

\* what the decoding of signals i has to be
DecodesRight(i, cmd) ==
    LET code == << i.ras_n, i.cas_n, i.we_n >>
        bit10 == (i.address \div 1024) % 2 = 1
        bit12 == (i.address \div 4096) % 2 = 1
    IN  IF i.cke = 0 \/ i.cs_n = 1 THEN cmd = NoCommand
        ELSE /\ TableName(code) \notin {"PRE", "ZQC"} =>
                  cmd.name = TableName(code)
             /\ TableName(code) = "PRE" =>
                  IF bit10 THEN cmd.name = "PREA" /\ cmd.bank = None
                  ELSE cmd.name = "PRE" /\ cmd.bank = i.bank
             /\ TableName(code) = "ZQC" =>
                  cmd.name = (IF bit10 THEN "ZQCL" ELSE "ZQCS")
             /\ TableName(code) = "ACT" =>
                  cmd.bank = i.bank /\ cmd.row = i.address
             /\ TableName(code) \in {"RD", "WR"} =>
                  /\ cmd.bank = i.bank
                  /\ cmd.col = i.address % 4096
                  /\ cmd.burst = (IF bit12 THEN "BL8" ELSE "BC4")

\* C21: with CKE = 1 and CS_n = 0 the 3-bit code is mapped to its name by
\* the fixed table; PRE with address bit 10 set is PREA without a bank, else
\* PRE with the bank; ZQC is ZQCL with bit 10 set, else ZQCS; ACT carries
\* bank and row, RD/WR bank, column (bits 0..11) and burst hint (bit 12);
\* with CKE = 0 or CS_n = 1 no command is produced.
C21_CommandDecoding ==
    [][ ~d_pending => DecodesRight(m_iface, m_cmd') ]_vars

\* A read decoded with bit 12 set and bit 10 set in its column.
C21_Witness ==
    /\ d_pending
    /\ m_cmd.name = "RD"
    /\ m_cmd.bank = 1
    /\ m_cmd.col = 1029
    /\ m_cmd.burst = "BL8"
    /\ m_iface.address = 5125

\* the part of the signals the decoded name may depend on
NameInputs(i) ==
    << i.cke, i.cs_n, i.ras_n, i.cas_n, i.we_n, (i.address \div 1024) % 2 >>

C23_ClosedBankFails ==
    [][ (\E n \in 1 .. Len(m_log') :
            m_log'[n] \in {"Attempted to write to an inactive bank",
                           "Attempted to read from an inactive bank",
                           "DFI write to an inactive bank",
                           "DFI read from an inactive bank"})
        => ~m_passed' ]_vars

\* the latest command is applied to the banks
Applied(banks, cmd) ==
    /\ cmd.name = "ACT" => /\ banks[cmd.bank].is_active
                           /\ banks[cmd.bank].row = cmd.row
    /\ cmd.name = "PRE" => ~banks[cmd.bank].is_active
    /\ cmd.name = "PREA" => \A b \in DOMAIN banks : ~banks[b].is_active

\* C24: the verdict starts True and never returns to True once False; with
\* the verdict False the model still decodes the command of every edge it
\* samples, has it checked against the rules and applies it to the banks;
\* the final phase fails exactly when the verdict is False.
C24_AggregatedVerdict ==
    /\ m_passed = TRUE
    /\ [][ /\ ~m_passed => ~m_passed'
           /\ m_cmd' = parse_dfi_command(m_iface')
           /\ Applied(m_banks', m_cmd')
           /\ m_cmd'.name \notin {"", "NOP"} =>
                 /\ Len(chk_results') = Len(chk_results) + 1
                 /\ chk_hist'[Len(chk_hist')].name = m_cmd'.name
                 /\ chk_cmd_time'[m_cmd'.name] = (m_ticks + 1) * ClkPeriodPs
           /\ FinalPhaseFails' <=> ~m_passed' ]_vars

\* After a timing violation a later command has passed the rules and an
\* activate has opened its bank, the verdict staying False.
C24_Witness ==
    /\ ~m_passed
    /\ FinalPhaseFails
    /\ Len(chk_results) = 3
    /\ ~chk_results[2]
    /\ chk_results[3]
    /\ m_cmd.name = "ACT"
    /\ m_banks[m_cmd.bank].is_active

\* the edge that leads to the primed state found a timing error, or a data
\* phase without its command
OtherViolation ==
    \/ /\ Len(chk_results') > Len(chk_results)
       /\ ~chk_results'[Len(chk_results')]
    \/ \E n \in 1 .. Len(m_log') :
          m_log'[n] \in {"DFI write without pending DRAM write command",
                         "DFI read without pending DRAM write command"}

\* C25: an activate of a bank that is open on another row, no precharge of
\* the bank in between, fails the verdict; an activate of a bank open on
\* the same row is logged and does not change the verdict.
C25_ActOnOpenBank ==
    [][ (m_cmd'.name = "ACT" /\ m_banks[m_cmd'.bank].is_active) =>
           IF m_banks[m_cmd'.bank].row # m_cmd'.row
           THEN ~m_passed'
           ELSE /\ m_log'[1] = "Attempted to activate an active bank/row"
                /\ OtherViolation \/ m_passed' = m_passed ]_vars

\* the rules of the table that name PRE, and the same with PREA in its place
PrechargeRules(pre) ==
    {<< pre, "ACT", "tRP" >>, << pre, "REF", "tRP" >>,
     << "ACT", pre, "tRAS" >>, << "REF", pre, "tRFC" >>,
     << "WR", pre, "tWR" >>}

\* every command that comes sooner than the rule's delay after the latest
\* occurrence of the rule's predecessor has failed its check
Enforced(rule) ==
    \A i \in 1 .. Len(chk_hist) :
        LET j == LastBefore(chk_hist, i, rule[1])
        IN  (/\ chk_hist[i].name = rule[2]
             /\ j # 0
             /\ chk_hist[i].time - chk_hist[j].time
                    < DelayTim(Timings[rule[3]]))
            => ~chk_results[i]

\* C26: every rule of the table that names PRE as predecessor or successor
\* is enforced with the same delay when a PREA stands in place of the PRE.
C26_PreaAsPre ==
    /\ \A rule \in PrechargeRules("PRE") : Enforced(rule)
    /\ \A rule \in PrechargeRules("PREA") : Enforced(rule)

\* A precharge-all, an activate sooner than tRP after it, refused, and a
\* precharge-all sooner than tRAS after the activate, refused as well.
C26_Witness ==
    /\ Len(chk_hist) = 3
    /\ chk_hist[1].name = "PREA"
    /\ chk_hist[2].name = "ACT"
    /\ chk_hist[2].time - chk_hist[1].time < DelayTim(Timings.tRP)
    /\ ~chk_results[2]
    /\ chk_hist[3].name = "PREA"
    /\ chk_hist[3].time - chk_hist[2].time < DelayTim(Timings.tRAS)
    /\ ~chk_results[3]

\* C27: a command is never reported for a rule whose predecessor has not
\* occurred before it, whatever its time; the first command passes.
C27_ColdStart ==
    /\ [](Len(chk_results) >= 1 => chk_results[1])
    /\ [][ \A n \in (Len(chk_log) + 1) .. Len(chk_log') :
              LastBefore(chk_hist', Len(chk_hist'),
                         rules[chk_log'[n].rule].prev) # 0 ]_vars

\* A precharge comes first, one cycle after the start and far sooner than
\* tRFC, and passes: no refresh has been seen; so does the write after it.
C27_Witness ==
    /\ Len(chk_hist) = 2
    /\ chk_hist[1].name = "PRE"
    /\ chk_hist[1].time = ClkPeriodPs
    /\ chk_hist[1].time < DelayTim(Timings.tRFC)
    /\ chk_results[1]
    /\ chk_hist[2].name = "WR"
    /\ chk_hist[2].time - chk_hist[1].time < DelayTim(Timings.tRCD)
    /\ chk_results[2]

\* the byte of lane that the latest of the first n writes to (row, bank,
\* col) with the lane unmasked has written, 0 when there is none
RECURSIVE LastWritten(_, _, _, _, _, _)
LastWritten(writes, n, row, bank, col, lane) ==
    IF n = 0 THEN 0
    ELSE LET w == writes[n]
         IN  IF /\ w[2] = bank
                /\ w[3] = row
                /\ w[4] = col
                /\ (w[6] \div (2 ^ lane)) % 2 = 0
             THEN (w[5] \div (256 ^ lane)) % 256
             ELSE LastWritten(writes, n - 1, row, bank, col, lane)

ActivateAccepted ==
    \/ choose_cmd_accept /\ bm[choose_cmd_grant] = "act"
    \/ choose_req_accept /\ bm[choose_req_grant] = "act"

ColumnAccepted == choose_req_accept /\ bm[choose_req_grant] \in {"rd", "wr"}

\* C29: in READ and WRITE an activate is accepted only in a cycle where the
\* tRRD and tFAW guards are both ready, a read or write only in a cycle
\* where the tCCD guard is ready; with one phase cmd.ready is cas_allowed
\* and (not activate or ras_allowed); an accepted activate arms tRRD and
\* tFAW, an accepted read or write arms tCCD.
C29_GuardGating ==
    /\ [](mux_state \in {"READ", "WRITE"} =>
            /\ ActivateAccepted =>
                  GuardReady(trrd_count) /\ CountTrue(tfaw_window) < 4
            /\ ColumnAccepted => GuardReady(tccd_count)
            /\ nphases = 1 =>
                  (choose_req_ready <=>
                      /\ tccd_count = 0
                      /\ \/ ~(choose_req_valid /\ bm[choose_req_grant] = "act")
                         \/ (trrd_count = 0 /\ CountTrue(tfaw_window) < 4)))
    /\ [][ /\ ActivateAccepted =>
                /\ trrd_count' = timing_regs.tRRD
                /\ timing_regs.tFAW > 0 => Head(tfaw_window')
           /\ ColumnAccepted => tccd_count' = timing_regs.tCCD ]_vars

\* Four activates accepted in four cycles: the tRRD guard is ready, the
\* tFAW guard is not, and the activate a bank machine presents is held back.
C29_Witness ==
    /\ mux_state \in {"READ", "WRITE"}
    /\ nphases = 2
    /\ bm[choose_cmd_grant] = "act"
    /\ trrd_count = 0
    /\ CountTrue(tfaw_window) = 4
    /\ ~choose_cmd_accept

\* the delay the claim gives RTW
StatedRTWDelay ==
    IF timing_regs.read_latency # None THEN timing_regs.read_latency - 1
    ELSE (cl + 1) \div timing_regs.nphases

\* C30: in RTW and WTR neither chooser's command is accepted and every
\* steerer phase selects NOP; RTW lasts read_latency - 1 cycles when
\* read_latency is stated and (cl + 1) // nphases cycles else, and then goes
\* to WRITE whatever the requests and refresh grants are; WTR goes to READ
\* in the first cycle in which the write-to-read guard is ready and to no
\* other state.
C30_TurnaroundWaits ==
    /\ [](mux_state \in {"RTW", "WTR"} =>
            /\ ~choose_req_ready
            /\ ~choose_cmd_ready
            /\ \A i \in Phases : steerer_sel(i) = STEER_NOP)
    /\ [][ /\ mux_state = "RTW" =>
                /\ mux_state' \in {"RTW", "WRITE"}
                /\ mux_state' = "WRITE" <=> t_len = StatedRTWDelay
           /\ mux_state = "WTR" =>
                /\ mux_state' \in {"WTR", "READ"}
                /\ mux_state' = "READ" <=> twtr_count = 0 ]_vars

\* The last cycle of a three-cycle RTW, no write pending any more and every
\* bank machine granting the refresh.
C30_Witness ==
    /\ mux_state = "RTW"
    /\ timing_regs.read_latency = 4
    /\ t_len = 3
    /\ ~write_available
    /\ \A b \in Banks : refresh_gnt(b)

\* C31: for every value of the tWTR and tCCD registers the delay the
\* write-to-read guard is loaded with is tWTR + write_latency + tCCD, not
\* that sum reduced modulo the width of twtrcon_init.
C31_AdditiveDelay ==
    /\ twtrcon_init = timing_regs.tWTR + write_latency + timing_regs.tCCD
    /\ twtr_count <= timing_regs.tWTR + write_latency + timing_regs.tCCD

\* C34: with bank machines that grant the refresh only after a cycle with
\* refresh_req, the Refresher FSM is in DO-REFRESH or DO-ZQCS only while the
\* scheduler is in REFRESH, the scheduler is in REFRESH only while the
\* Refresher FSM is in WAIT-BANK-MACHINES, DO-REFRESH or DO-ZQCS, and both
\* leave together in the cycle after cmd.last.
C34_CrossFsm ==
    /\ [](ref_state \in {"DO-REFRESH", "DO-ZQCS"} => mux_state = "REFRESH")
    /\ [](mux_state = "REFRESH"
            => ref_state \in {"WAIT-BANK-MACHINES", "DO-REFRESH", "DO-ZQCS"})
    /\ [][ /\ refresher_cmd_last
                 => mux_state' = "READ" /\ ref_state' = "IDLE"
           /\ (mux_state = "REFRESH" /\ mux_state' # "REFRESH")
                 => refresher_cmd_last
           /\ (ref_state \in {"DO-REFRESH", "DO-ZQCS"} /\ ref_state' = "IDLE")
                 => refresher_cmd_last ]_vars

C34_Witness ==
    /\ mux_state = "REFRESH"
    /\ ref_state = "DO-ZQCS"
    /\ refresher_cmd_last

\* the new error records a step logged for rules whose prev and curr are
\* both the given name
SelfErrors(name) ==
    {k \in (Len(chk_log) + 1) .. Len(chk_log') :
        /\ rules[chk_log'[k].rule].prev = name
        /\ rules[chk_log'[k].rule].curr = name}

\* C38: after check_command(cmd), cmd_time[cmd.name] is cmd.time, whether a
\* rule matched, was violated or not, and every other name's entry is as
\* before; a rule from a command to itself is checked against the previous
\* occurrence of the command, never against the command being checked.
C38_TimestampRecording ==
    [][ Len(chk_hist') = Len(chk_hist) + 1 =>
          LET n == Len(chk_hist')
              c == chk_hist'[n]
              j == LastBefore(chk_hist', n, c.name)
              selfs == {r \in 1 .. Len(rules) :
                          rules[r].prev = c.name /\ rules[r].curr = c.name}
          IN  /\ chk_cmd_time'[c.name] = c.time
              /\ \A m \in CmdNames \ {c.name} :
                    chk_cmd_time'[m] = chk_cmd_time[m]
              /\ \A k \in SelfErrors(c.name) :
                    /\ j # 0
                    /\ chk_log'[k].actual = FormatNs(c.time - chk_hist'[j].time)
              /\ \A r \in selfs :
                    (\E k \in SelfErrors(c.name) : chk_log'[k].rule = r)
                    <=> (j # 0 /\ c.time - chk_hist'[j].time < rules[r].delay)
      ]_vars

\* ACT two clocks after ACT: the tRC rule is reported with the 20 ns between
\* the two, and the second time is the one recorded
C38_Witness ==
    /\ Len(chk_hist) = 2
    /\ chk_hist[1].name = "ACT" /\ chk_hist[2].name = "ACT"
    /\ chk_hist[2].time - chk_hist[1].time = 2 * ClkPeriodPs
    /\ Len(chk_log) = 1 /\ chk_log[1].actual = 2000
    /\ chk_results = << TRUE, FALSE >>
    /\ chk_cmd_time["ACT"] = chk_hist[2].time

\* C40: with tZQCS # 0 a pulse of the ZQCS timer sets wants_zqcs; once set
\* the flag stays set in every cycle in which the ZQCS executor does not
\* report done, whatever the state of the Refresher FSM, and is cleared by
\* done even when the timer pulses again meanwhile or in that very cycle, so
\* a pulse while the flag is set adds no second calibration; with
\* tZQCS = 0 the flag is never set.
C40_ZqcsLatched ==
    /\ [](timing_regs.tZQCS = 0 => ~wants_zqcs)
    /\ [][ /\ (~wants_zqcs /\ timing_regs.tZQCS # 0 /\ zqcs_timer_done)
                 => wants_zqcs'
           /\ (~wants_zqcs /\ ~zqcs_timer_done) => ~wants_zqcs'
           /\ (wants_zqcs /\ ~zqcs_executor_done) => wants_zqcs'
           /\ (wants_zqcs /\ zqcs_executor_done) => ~wants_zqcs'
           /\ zqcs_executor_start => wants_zqcs ]_vars

\* the timer pulses again while the flag is set and the calibration runs
C40_Witness ==
    /\ wants_zqcs
    /\ zqcs_timer_done
    /\ ref_state = "DO-ZQCS"

=============================================================================
